---- MODULE Spec2Model ----
(***************************************************************************)
(* csv-chef: the recipe execution engine of package csv.                   *)
(*                                                                         *)
(* Text (cell contents, separators, numeric literals) is a sequence of     *)
(* byte codes, so that trimming, comparison, concatenation and parsing are *)
(* computed as the Go code computes them.  Names (columns, operations,     *)
(* arguments, states) are TLA+ strings: the code only ever uses them as    *)
(* map keys.                                                               *)
(***************************************************************************)
EXTENDS Integers, Sequences, FiniteSets, TLC

(***************************************************************************)
(* Text helpers (Go strings / strconv / strings)                           *)
(***************************************************************************)

\* the byte codes used by the model's literals
T_empty == <<>>
T_a     == <<97>>
T_b     == <<98>>
T_ab    == <<97, 98>>
T_A     == <<65>>
T_0     == <<48>>
T_1     == <<49>>
T_2     == <<50>>
T_3     == <<51>>
T_10    == <<49, 48>>
T_semi  == <<59>>
T_v     == <<118>>
T_sp    == <<32>>

IsSpace(c) == c \in {9, 10, 11, 12, 13, 32}

IsDigit(c) == c \in 48..57

\* strings.TrimSpace
RECURSIVE TrimLeft(_)
TrimLeft(s) ==
    IF s # <<>> /\ IsSpace(Head(s)) THEN TrimLeft(Tail(s)) ELSE s

RECURSIVE TrimRight(_)
TrimRight(s) ==
    IF s # <<>> /\ IsSpace(s[Len(s)]) THEN TrimRight(SubSeq(s, 1, Len(s) - 1)) ELSE s

TrimSpace(s) == TrimRight(TrimLeft(s))

\* strings.ToLower on ASCII
ToLower(s) == [k \in 1..Len(s) |-> IF s[k] \in 65..90 THEN s[k] + 32 ELSE s[k]]

\* Go's < on strings: bytewise lexicographic order
RECURSIVE StrLess(_, _)
StrLess(a, b) ==
    IF b = <<>> THEN FALSE
    ELSE IF a = <<>> THEN TRUE
    ELSE IF Head(a) < Head(b) THEN TRUE
    ELSE IF Head(a) > Head(b) THEN FALSE
    ELSE StrLess(Tail(a), Tail(b))

RECURSIVE DigitsVal(_)
DigitsVal(s) ==
    IF s = <<>> THEN 0 ELSE DigitsVal(SubSeq(s, 1, Len(s) - 1)) * 10 + (s[Len(s)] - 48)

AllDigits(s) == s # <<>> /\ \A k \in 1..Len(s) : IsDigit(s[k])

\* strconv.Atoi: an optional sign followed by decimal digits
Atoi(s) ==
    LET signed == s # <<>> /\ Head(s) \in {43, 45}
        body   == IF signed THEN Tail(s) ELSE s
    IN  IF AllDigits(body)
        THEN [ok |-> TRUE,
              val |-> IF signed /\ Head(s) = 45 THEN 0 - DigitsVal(body) ELSE DigitsVal(body)]
        ELSE [ok |-> FALSE, val |-> 0]

RECURSIVE ItoaNat(_)
ItoaNat(n) == IF n < 10 THEN <<48 + n>> ELSE ItoaNat(n \div 10) \o <<48 + (n % 10)>>

\* strconv.Itoa
Itoa(n) == IF n < 0 THEN <<45>> \o ItoaNat(0 - n) ELSE ItoaNat(n)

\* strings.Join
RECURSIVE Join(_, _)
Join(parts, sep) ==
    IF parts = <<>> THEN <<>>
    ELSE IF Len(parts) = 1 THEN parts[1]
    ELSE parts[1] \o sep \o Join(Tail(parts), sep)

(***************************************************************************)
(* Value model                                                             *)
(***************************************************************************)

TypStr   == "string"
TypInt   == "int"
TypFloat == "float"
TypBool  == "bool"

\* a nil pointer is the empty tuple, a set pointer a one-element tuple
Nil == <<>>
Ptr(x) == <<x>>

\* the tokens of the strBool table that map to false and to true
StrBoolFalse == {<<110, 111>>, <<110, 47, 97>>, <<102, 97, 108, 115, 101>>, <<48>>, <<>>}
StrBoolTrue  == {<<121, 101, 115>>, <<116, 114, 117, 101>>, <<49>>}

\* a ColDef with its chain of parser invocations
ColDefWith(name, typ, dflt, notEmpty, dyn, chain) ==
    [Name |-> name, Type |-> typ, Default |-> dflt, NotEmpty |-> notEmpty, Dynamic |-> dyn,
     Parsers |-> chain]

ColDefOf(name, typ, dflt, notEmpty, dyn) == ColDefWith(name, typ, dflt, notEmpty, dyn, <<>>)

\* a parseValStr that refuses an empty required value before it looks at the type
parseValStrStrict(cd, val) ==
    IF TrimSpace(val) # <<>> THEN [ok |-> TRUE, val |-> TrimSpace(val)]
    ELSE IF cd.Default # <<>> THEN [ok |-> TRUE, val |-> cd.Default]
    ELSE IF cd.NotEmpty THEN [ok |-> FALSE, val |-> <<>>]
    ELSE IF cd.Type # TypStr THEN [ok |-> TRUE, val |-> T_0]
    ELSE [ok |-> TRUE, val |-> <<>>]

\* ColDef.parseValStr: [ok, val]
parseValStr(cd, val) ==
    LET t == TrimSpace(val)
    IN  IF t = <<>>
        THEN IF cd.Default # <<>> THEN [ok |-> TRUE, val |-> cd.Default]
             ELSE IF cd.Type # TypStr THEN [ok |-> TRUE, val |-> T_0]
             ELSE IF cd.NotEmpty THEN [ok |-> FALSE, val |-> <<>>]
             ELSE [ok |-> TRUE, val |-> <<>>]
        ELSE [ok |-> TRUE, val |-> t]

\* strconv.ParseFloat restricted to the decimal forms the model's texts take:
\* [sign] digits [ "." digit ]; the float is kept in tenths
ParseFloat(s) ==
    LET signed == s # <<>> /\ Head(s) \in {43, 45}
        body   == IF signed THEN Tail(s) ELSE s
        neg    == signed /\ Head(s) = 45
        dot    == Len(body) >= 3 /\ body[Len(body) - 1] = 46
        ip     == IF dot THEN SubSeq(body, 1, Len(body) - 2) ELSE body
        fp     == IF dot THEN body[Len(body)] ELSE 48
        mag    == DigitsVal(ip) * 10 + (fp - 48)
    IN  IF AllDigits(ip) /\ IsDigit(fp)
        THEN [ok |-> TRUE, val |-> IF neg THEN 0 - mag ELSE mag]
        ELSE [ok |-> FALSE, val |-> 0]

\* int(f) for a float kept in tenths: truncation toward zero
FloatToInt(f) == IF f < 0 THEN 0 - ((0 - f) \div 10) ELSE f \div 10

\* float64(i), in tenths
IntToFloat(i) == i * 10

\* NewValue: [ok, err, val]
NewValue(def, vStr0) ==
    LET p == parseValStr(def, vStr0)
        vStr == p.val
        blank == [valStr |-> vStr, valInt |-> Nil, valFloat |-> Nil, valBool |-> Nil,
                  def |-> def]
        fail(e) == [ok |-> FALSE, err |-> e, val |-> blank]
    IN  IF ~p.ok THEN fail("required value is empty")
        ELSE IF def.Type = TypStr THEN [ok |-> TRUE, err |-> "", val |-> blank]
        ELSE IF def.Type = TypInt THEN
            LET a == Atoi(vStr)
            IN  IF ~a.ok THEN fail("not a number")
                ELSE [ok |-> TRUE, err |-> "",
                      val |-> [blank EXCEPT !.valInt = Ptr(a.val),
                                            !.valFloat = Ptr(IntToFloat(a.val)),
                                            !.valBool = Ptr(a.val <= 0)]]
        ELSE IF def.Type = TypBool THEN
            LET bStr == TrimSpace(ToLower(vStr))
                vBool == IF bStr \in StrBoolFalse THEN FALSE ELSE TRUE
            IN  [ok |-> TRUE, err |-> "", val |-> [blank EXCEPT !.valBool = Ptr(vBool)]]
        ELSE IF def.Type = TypFloat THEN
            LET f == ParseFloat(vStr)
            IN  IF ~f.ok THEN fail("not a float")
                ELSE [ok |-> TRUE, err |-> "",
                      val |-> [blank EXCEPT !.valFloat = Ptr(f.val),
                                            !.valInt = Ptr(FloatToInt(f.val)),
                                            !.valBool = Ptr(FloatToInt(f.val) <= 0)]]
        ELSE fail("unsupported type")

\* Value.ValStr
ValStr(v) == v.valStr

\* Value.ValFloat: nil unless the column is float or int
ValFloat(v) ==
    IF v.def.Type # TypFloat /\ v.def.Type # TypInt THEN Nil ELSE v.valFloat

\* NewRow: header is a sequence of column definitions by input position
\* (Nil at a position that is not a recognised column); [ok, row]
RECURSIVE NewRowFrom(_, _, _, _)
NewRowFrom(header, rowStr, i, row) ==
    IF i > Len(rowStr) THEN [ok |-> TRUE, row |-> row]
    ELSE IF i > Len(header) \/ header[i] = Nil
         THEN NewRowFrom(header, rowStr, i + 1, row)
    ELSE LET h == header[i][1]
             nv == NewValue(h, rowStr[i])
         IN  IF ~nv.ok THEN [ok |-> FALSE, row |-> row]
             ELSE NewRowFrom(header, rowStr, i + 1,
                    [c \in DOMAIN row \cup {h.Name} |->
                        IF c = h.Name THEN nv.val ELSE row[c]])

EmptyRow == [c \in {} |-> Nil]

NewRow(header, rowStr) == NewRowFrom(header, rowStr, 1, EmptyRow)

(***************************************************************************)
(* Operation registry and argument shapes                                  *)
(***************************************************************************)

\* Operation.ArgDef of the built-in operations: argument name -> kind
operations ==
    [print          |-> [cols |-> "slice"],
     toFile         |-> [filename |-> "string", cols |-> "slice"],
     sort           |-> [cols |-> "slice", order |-> "slice"],
     dupesCount     |-> [indexCols |-> "slice", outCols |-> "slice",
                         countCol |-> "string", gt |-> "int"],
     findDuplicates |-> [indexCols |-> "slice", outCols |-> "slice", idCol |-> "string",
                         dupeIdsCol |-> "string", sep |-> "string"],
     mergeDupes     |-> [indexCols |-> "slice", outCols |-> "slice", mergeValues |-> "bool"],
     filesMd5       |-> [filenameCol |-> "string", md5Col |-> "string",
                         outCols |-> "slice", threads |-> "int"]]

\* parseOpArgs: a slice-kinded argument resolves to Values, any other to Value
parseOpArgs(opArgDef, arg) == IF opArgDef = "slice" THEN arg.Values ELSE arg.Value

\* the FuncArgs ReadCsv builds for an invocation whose arguments are all declared
OpFuncArgs(op) ==
    [a \in DOMAIN op.Args |-> parseOpArgs(operations[op.Operation][a], op.Args[a])]

(***************************************************************************)
(* sort                                                                    *)
(***************************************************************************)

Swap(arr, p, q) == [arr EXCEPT ![p] = arr[q], ![q] = arr[p]]

\* The comparison closure handed to sort.Slice, called with the 0-based slice
\* indices i and j.  rws is the slice as it stands (rows by position), order the
\* direction slice as it stands.  Result: [lt, order, panic].
RECURSIVE sortLessFrom(_, _, _, _, _, _, _)
sortLessFrom(rws, defs, cols, order, i, j, colI) ==
    IF colI > Len(cols) THEN [lt |-> FALSE, order |-> order, panic |-> FALSE]
    ELSE
    LET col  == cols[colI]
        ord1 == IF order[colI] # "desc" /\ order[colI] # "asc"
                THEN [order EXCEPT ![colI] = "asc"] ELSE order
        boom == [lt |-> FALSE, order |-> ord1, panic |-> TRUE]
    IN  IF col \notin DOMAIN defs THEN boom              \* colDef is nil
        ELSE IF defs[col].Type \notin {TypStr, TypFloat, TypInt}
             THEN sortLessFrom(rws, defs, cols, ord1, i, j, colI + 1)
        ELSE IF i + 1 > Len(ord1) THEN boom               \* order[i]: index out of range
        ELSE IF col \notin DOMAIN rws[i + 1] \/ col \notin DOMAIN rws[j + 1] THEN boom
        ELSE
        LET dir == ord1[i + 1]
            vi  == rws[i + 1][col]
            vj  == rws[j + 1][col]
            isS == defs[col].Type = TypStr
            numOk == ValFloat(vi) # Nil /\ ValFloat(vj) # Nil
            lt  == IF isS THEN StrLess(ValStr(vi), ValStr(vj))
                   ELSE ValFloat(vi)[1] < ValFloat(vj)[1]
            gt  == IF isS THEN StrLess(ValStr(vj), ValStr(vi))
                   ELSE ValFloat(vi)[1] > ValFloat(vj)[1]
        IN  IF ~isS /\ ~numOk THEN boom                   \* nil *float64 dereferenced
            ELSE IF dir = "asc" /\ lt THEN [lt |-> TRUE, order |-> ord1, panic |-> FALSE]
            ELSE IF dir = "asc" /\ gt THEN [lt |-> FALSE, order |-> ord1, panic |-> FALSE]
            ELSE IF dir = "desc" /\ gt THEN [lt |-> TRUE, order |-> ord1, panic |-> FALSE]
            ELSE IF dir = "desc" /\ lt THEN [lt |-> FALSE, order |-> ord1, panic |-> FALSE]
            ELSE sortLessFrom(rws, defs, cols, ord1, i, j, colI + 1)

sortLess(rws, defs, cols, order, i, j) == sortLessFrom(rws, defs, cols, order, i, j, 1)

\* The state threaded through sort.Slice: arr (row ids by position), order, panic.
\* data.Less(i, j) followed by data.Swap(i, j) when it answers true.
LessSwap(heap, defs, cols, st, i, j) ==
    LET l == sortLess([k \in 1..Len(st.arr) |-> heap[st.arr[k]]], defs, cols, st.order, i, j)
    IN  [arr   |-> IF l.lt /\ ~l.panic THEN Swap(st.arr, i + 1, j + 1) ELSE st.arr,
         order |-> l.order,
         panic |-> l.panic,
         moved |-> l.lt /\ ~l.panic]

\* insertionSort of package sort: for j := i; j > 0 && less(j, j-1); j-- { swap }
RECURSIVE insertionInner(_, _, _, _, _)
insertionInner(heap, defs, cols, st, j) ==
    IF j <= 0 THEN st
    ELSE LET n == LessSwap(heap, defs, cols, st, j, j - 1)
             s == [arr |-> n.arr, order |-> n.order, panic |-> n.panic]
         IN  IF n.moved THEN insertionInner(heap, defs, cols, s, j - 1) ELSE s

RECURSIVE insertionSort(_, _, _, _, _)
insertionSort(heap, defs, cols, st, i) ==
    IF st.panic \/ i >= Len(st.arr) THEN st
    ELSE insertionSort(heap, defs, cols, insertionInner(heap, defs, cols, st, i), i + 1)

\* the gap-6 pass that quickSort of toolchains before Go 1.19 runs on a slice
\* of 2..12 elements before insertionSort
RECURSIVE shellPass(_, _, _, _, _)
shellPass(heap, defs, cols, st, i) ==
    IF st.panic \/ i >= Len(st.arr) THEN st
    ELSE LET n == LessSwap(heap, defs, cols, st, i, i - 6)
         IN  shellPass(heap, defs, cols,
                       [arr |-> n.arr, order |-> n.order, panic |-> n.panic], i + 1)

\* sort.Slice on a slice of at most 12 elements.  legacy: the build uses a
\* toolchain whose sort.Slice is quickSort (gap-6 pass, then insertion sort);
\* otherwise pdqsort, which is insertion sort alone at this size.
sortSlice(heap, defs, cols, order, arr, legacy) ==
    LET st0 == [arr |-> arr, order |-> order, panic |-> FALSE]
        st1 == IF legacy /\ Len(arr) > 1 THEN shellPass(heap, defs, cols, st0, 6) ELSE st0
    IN  insertionSort(heap, defs, cols, st1, 1)

\* opSort: [err, panic, arr, order]; it returns no rows and no definitions
opSort(heap, arr, defs, args, legacy) ==
    LET none(e) == [err |-> e, panic |-> FALSE, arr |-> arr, order |-> <<>>]
    IN  IF "cols" \notin DOMAIN args THEN none("cols argument not provided")
        ELSE IF "order" \notin DOMAIN args THEN none("order argument not provided")
        ELSE IF Len(args.order) # Len(args.cols)
             THEN [none("number of items in 'order' must be equal to number of items in 'cols'")
                    EXCEPT !.order = args.order]
        ELSE LET r == sortSlice(heap, defs, args.cols, args.order, arr, legacy)
             IN  [err |-> "", panic |-> r.panic, arr |-> r.arr, order |-> r.order]

(***************************************************************************)
(* Grouping operations                                                     *)
(***************************************************************************)

\* index += row[col].ValStr() over the index columns
RECURSIVE rowIndexFrom(_, _, _)
rowIndexFrom(row, cols, k) ==
    IF k > Len(cols) THEN <<>>
    ELSE ValStr(row[cols[k]]) \o rowIndexFrom(row, cols, k + 1)

rowIndex(row, cols) == rowIndexFrom(row, cols, 1)

\* m[index] = append(m[index], row) over the rows in slice order.  keys lists
\* the map's keys in the order they were first inserted.
RECURSIVE buildIndex(_, _, _, _, _)
buildIndex(rws, cols, k, keys, m) ==
    IF k > Len(rws) THEN [keys |-> keys, m |-> m]
    ELSE LET index == rowIndex(rws[k], cols)
         IN  IF index \in DOMAIN m
             THEN buildIndex(rws, cols, k + 1, keys,
                             [m EXCEPT ![index] = Append(m[index], rws[k])])
             ELSE buildIndex(rws, cols, k + 1, Append(keys, index),
                             [x \in DOMAIN m \cup {index} |->
                                 IF x = index THEN <<rws[k]>> ELSE m[x]])

\* the groups of the map, listed in first-insertion order of their keys
groupsOf(rws, cols) ==
    LET b == buildIndex(rws, cols, 1, <<>>, [x \in {} |-> <<>>])
    IN  [g \in 1..Len(b.keys) |-> b.m[b.keys[g]]]

\* a row lacks an index column: row[col] is a nil interface and ValStr panics
indexPanics(rws, cols) ==
    \E k \in 1..Len(rws), c \in 1..Len(cols) : cols[c] \notin DOMAIN rws[k]

\* header[i] = defs[col] for the output columns, then the new column's definition
outHeader(defs, outCols, extra) ==
    [i \in 1..Len(outCols) |-> IF outCols[i] \in DOMAIN defs THEN Ptr(defs[outCols[i]]) ELSE Nil]
        \o extra

\* outDefs[h.Name] = h over the header
outDefsOf(header) ==
    LET names == {header[i][1].Name : i \in {k \in 1..Len(header) : header[k] # Nil}}
    IN  [n \in names |->
            header[CHOOSE i \in 1..Len(header) : header[i] # Nil /\ header[i][1].Name = n
                /\ \A k \in 1..Len(header) :
                      (header[k] # Nil /\ header[k][1].Name = n) => k <= i][1] ]

\* the values of the output columns taken from one row
outVals(row, outCols) == [i \in 1..Len(outCols) |-> ValStr(row[outCols[i]])]

\* The result of a grouping operation.  rows lists the emitted rows by group in
\* first-insertion order of the groups; the Go loop ranges over the map, so the
\* caller picks the order.
OpResult(err, panic, rws, defs) == [err |-> err, panic |-> panic, rows |-> rws, defs |-> defs]

NoDefs == [x \in {} |-> Nil]

\* rows whose construction failed (NewRow returned an error)
anyRowError(built) == \E g \in 1..Len(built) : ~built[g].ok

SelectSeqIdx(n, keep(_)) ==
    LET F[k \in 0..n] == IF k = 0 THEN <<>>
                         ELSE IF keep(k) THEN Append(F[k - 1], k) ELSE F[k - 1]
    IN  F[n]

\* a dupesCount that also reports the groups of exactly gt rows
dupesCountEmitsFromGt(gt, grp) == ~(gt > Len(grp))

\* the sizes a group must exceed to be reported by dupesCount
dupesCountEmits(gt, grp) == ~(gt >= Len(grp))

\* opDupesCount
opDupesCount(rws, defs, args) ==
    IF "indexCols" \notin DOMAIN args THEN OpResult("indexCols argument not provided", FALSE, <<>>, NoDefs)
    ELSE IF "outCols" \notin DOMAIN args THEN OpResult("outCols argument not provided", FALSE, <<>>, NoDefs)
    ELSE IF "countCol" \notin DOMAIN args THEN OpResult("countCol argument not provided", FALSE, <<>>, NoDefs)
    ELSE IF "gt" \notin DOMAIN args THEN OpResult("gt argument not provided", FALSE, <<>>, NoDefs)
    ELSE IF ~Atoi(args.gt).ok THEN OpResult("strconv.Atoi", FALSE, <<>>, NoDefs)
    ELSE
    LET cols    == args.indexCols
        outCols == args.outCols
        gt      == Atoi(args.gt).val
        header  == outHeader(defs, outCols,
                             <<Ptr(ColDefOf(args.countCol, TypInt, <<>>, FALSE, TRUE))>>)
    IN  IF indexPanics(rws, cols) \/ \E i \in 1..Len(header) : header[i] = Nil
        THEN OpResult("", TRUE, <<>>, NoDefs)
        ELSE
        LET grps  == groupsOf(rws, cols)
            emit  == SelectSeqIdx(Len(grps), LAMBDA g : dupesCountEmits(gt, grps[g]))
            built == [e \in 1..Len(emit) |->
                        NewRow(header, Append(outVals(grps[emit[e]][1], outCols),
                                              Itoa(Len(grps[emit[e]]))))]
        IN  IF \E e \in 1..Len(emit), c \in 1..Len(outCols) :
                    outCols[c] \notin DOMAIN grps[emit[e]][1]
            THEN OpResult("", TRUE, <<>>, NoDefs)
            ELSE IF anyRowError(built) THEN OpResult("NewRow", FALSE, <<>>, NoDefs)
            ELSE OpResult("", FALSE, [e \in 1..Len(emit) |-> built[e].row], outDefsOf(header))

\* a findDuplicates that lists every member's id, the first one included
dupeIdsOfAll(grp, idCol) == [i \in 1..Len(grp) |-> ValStr(grp[i][idCol])]

\* for i, grpItem := range grp { if i == 0 { continue }; revs = append(revs, ...) }
dupeIds(grp, idCol) == [i \in 1..(Len(grp) - 1) |-> ValStr(grp[i + 1][idCol])]

\* the groups findDuplicates reports
findDuplicatesEmits(grp) == ~(Len(grp) = 1)

\* opFindDuplicates
opFindDuplicates(rws, defs, args) ==
    IF "indexCols" \notin DOMAIN args THEN OpResult("indexCols argument not provided", FALSE, <<>>, NoDefs)
    ELSE IF "outCols" \notin DOMAIN args THEN OpResult("outCols argument not provided", FALSE, <<>>, NoDefs)
    ELSE IF "idCol" \notin DOMAIN args THEN OpResult("idCol argument not provided", FALSE, <<>>, NoDefs)
    ELSE IF "dupeIdsCol" \notin DOMAIN args THEN OpResult("dupeIdsCol argument not provided", FALSE, <<>>, NoDefs)
    ELSE IF "sep" \notin DOMAIN args THEN OpResult("sep argument not provided", FALSE, <<>>, NoDefs)
    ELSE
    LET cols    == args.indexCols
        outCols == args.outCols
        header  == outHeader(defs, outCols,
                             <<Ptr(ColDefOf(args.dupeIdsCol, TypStr, <<>>, FALSE, TRUE))>>)
    IN  IF indexPanics(rws, cols) \/ \E i \in 1..Len(header) : header[i] = Nil
        THEN OpResult("", TRUE, <<>>, NoDefs)
        ELSE
        LET grps  == groupsOf(rws, cols)
            emit  == SelectSeqIdx(Len(grps), LAMBDA g : findDuplicatesEmits(grps[g]))
        IN  IF \E e \in 1..Len(emit) :
                  \/ \E c \in 1..Len(outCols) : outCols[c] \notin DOMAIN grps[emit[e]][1]
                  \/ \E i \in 2..Len(grps[emit[e]]) : args.idCol \notin DOMAIN grps[emit[e]][i]
            THEN OpResult("", TRUE, <<>>, NoDefs)
            ELSE
            LET built == [e \in 1..Len(emit) |->
                            NewRow(header, Append(outVals(grps[emit[e]][1], outCols),
                                                  Join(dupeIds(grps[emit[e]], args.idCol), args.sep)))]
            IN  IF anyRowError(built) THEN OpResult("NewRow", FALSE, <<>>, NoDefs)
                ELSE OpResult("", FALSE, [e \in 1..Len(emit) |-> built[e].row], outDefsOf(header))

\* argBool on a string argument: the strBool table, looked up verbatim
argBool(v) == v \in StrBoolTrue

\* a mergeDupes that never looks past the member it starts from
mergedValOfFirst(grp, col, mergeValues, gi) == ValStr(grp[gi + 1][col])

\* for gi, grpItem := range grp { val := ...; if mergeValues && val == "" &&
\* gi < len(grp)-1 { continue }; rec = append(rec, val); break }
RECURSIVE mergedVal(_, _, _, _)
mergedVal(grp, col, mergeValues, gi) ==
    LET val == ValStr(grp[gi + 1][col])
    IN  IF mergeValues /\ val = <<>> /\ gi < Len(grp) - 1
        THEN mergedVal(grp, col, mergeValues, gi + 1)
        ELSE val

\* opMergeDupes
opMergeDupes(rws, defs, args) ==
    IF "indexCols" \notin DOMAIN args THEN OpResult("indexCols argument not provided", FALSE, <<>>, NoDefs)
    ELSE IF "outCols" \notin DOMAIN args THEN OpResult("outCols argument not provided", FALSE, <<>>, NoDefs)
    ELSE IF "mergeValues" \notin DOMAIN args THEN OpResult("mergeValues argument not provided", FALSE, <<>>, NoDefs)
    ELSE
    LET cols    == args.indexCols
        outCols == args.outCols
        mergeValues == argBool(args.mergeValues)
        header  == outHeader(defs, outCols, <<>>)
    IN  IF indexPanics(rws, cols) \/ \E i \in 1..Len(header) : header[i] = Nil
        THEN OpResult("", TRUE, <<>>, NoDefs)
        ELSE
        LET grps == groupsOf(rws, cols)
        IN  IF \E g \in 1..Len(grps), c \in 1..Len(outCols) :
                  outCols[c] \notin DOMAIN grps[g][1]
            THEN OpResult("", TRUE, <<>>, NoDefs)
            ELSE
            LET built == [g \in 1..Len(grps) |->
                            NewRow(header, [c \in 1..Len(outCols) |->
                                              mergedVal(grps[g], outCols[c], mergeValues, 0)])]
            IN  IF anyRowError(built) THEN OpResult("NewRow", FALSE, <<>>, NoDefs)
                ELSE OpResult("", FALSE, [g \in 1..Len(grps) |-> built[g].row], outDefsOf(header))

(***************************************************************************)
(* Pipeline executor (ReadCsv, after the row-build pass)                    *)
(***************************************************************************)

VARIABLES
    valueDefs,  \* the configured column definitions (ValueDefs)
    ops,        \* the configured invocations ([]*OperationConf)
    opi,        \* position of the invocation about to run (1-based)
    status,     \* "running", "hashing", "done", "error", "panic", "deadlock"
    err,        \* the error ReadCsv returns
    heapRows,   \* the Row maps, by row id
    heapArr,    \* the backing arrays of the row slices, by array id
    states,     \* the retained-state registry: name -> OpState
    stdout,     \* what print wrote
    files,      \* the file system: path -> [exists, readable, cnt]
    legacySort, \* the build's sort.Slice is the quickSort of toolchains before 1.19
    frame,      \* the running opMd5File call
    task,       \* opMd5File's goroutines, by row position
    ch,         \* number of elements in opMd5File's channel
    wg,         \* opMd5File's WaitGroup counter
    touched,    \* history: the goroutines that have called os.Stat or ReadFile
    rows0,      \* history: the rows as the row-build pass produced them
    log,        \* history: one record per executed invocation
    input,      \* the records of the CSV file, the header record first
    recIndex,   \* number of records ReadCsv has consumed (its rowIndex + 1)
    csvHeader,  \* the Header NewHeader returned
    calls,      \* history: the parser invocations made while rows were built
    probe,      \* a function under study: its arguments and what it returned
    reg         \* the parser and operation registries while they are populated

vars == <<valueDefs, ops, opi, status, err, heapRows, heapArr, states, stdout, files, legacySort,
          frame, task, ch, wg, touched, rows0, log, input, recIndex, csvHeader, calls, probe, reg>>

\* what no operation of the pipeline writes
fixedVars == <<legacySort, input, recIndex, csvHeader, calls, probe, reg>>

pipeVars == <<ops, opi, status, err, heapRows, heapArr, states, stdout, log>>

md5Vars == <<frame, task, ch, wg, touched>>

\* a nil slice has array id 0
ArrOf(a) == IF a = 0 THEN <<>> ELSE heapArr[a]

\* the rows of a slice, by position
Deref(a) == [k \in 1..Len(ArrOf(a)) |-> heapRows[ArrOf(a)[k]]]

OpState(rws, defs) == [Rows |-> rws, Defs |-> defs]

\* the array the row-build pass filled, and the configured column definitions
BaseArr == 1

originalState == OpState(BaseArr, valueDefs)

CurOp == ops[opi]

\* an executor that does not register the base state under the first name
statesUnregistered == states

\* if opi == 0 { states[op.Name] = originalState }
statesAtEntry ==
    IF opi = 1 THEN (CurOp.Name :> originalState) @@ states ELSE states

\* the checks ReadCsv makes before it executes the invocation: "" when all pass
entryError ==
    IF CurOp.Operation \notin DOMAIN operations THEN "operation does not exist"
    ELSE IF \E a \in DOMAIN CurOp.Args : a \notin DOMAIN operations[CurOp.Operation]
         THEN "unexpected argument"
    ELSE IF CurOp.FromState # "" /\ CurOp.FromState \notin DOMAIN statesAtEntry
         THEN "state does not exist or was never kept"
    ELSE ""

\* state = originalState; if op.FromState != "" { state = states[op.FromState] }
execState ==
    IF CurOp.FromState # "" THEN statesAtEntry[CurOp.FromState] ELSE originalState

Ready(kinds) ==
    /\ status = "running"
    /\ opi <= Len(ops)
    /\ entryError = ""
    /\ CurOp.Operation \in kinds

LogEntry(outcome, outIds, outRows, outDefs) ==
    [opi |-> opi, name |-> CurOp.Name, operation |-> CurOp.Operation,
     from |-> CurOp.FromState, args |-> OpFuncArgs(CurOp), recvArr |-> execState.Rows,
     recvIds |-> ArrOf(execState.Rows),
     recvRows |-> Deref(execState.Rows), recvDefs |-> execState.Defs,
     outcome |-> outcome, outIds |-> outIds, outRows |-> outRows, outDefs |-> outDefs]

Outcome(r) == IF r.panic THEN "panic" ELSE IF r.err # "" THEN "error" ELSE "ok"

\* an executor that retains the state of every invocation
keepEveryState(outRows, outDefs) ==
    (CurOp.Name :> OpState(outRows, outDefs)) @@ statesAtEntry

\* if op.KeepState { states[op.Name] = &OpState{Rows: outRows, Defs: outDefs} }
keepState(outRows, outDefs) ==
    IF CurOp.KeepState THEN (CurOp.Name :> OpState(outRows, outDefs)) @@ statesAtEntry
    ELSE statesAtEntry

\* what every executed invocation does to the executor's own variables
Advance(r, outRows, outDefs) ==
    /\ status' = IF r.panic THEN "panic" ELSE IF r.err # "" THEN "error" ELSE "running"
    /\ err' = IF r.panic THEN "" ELSE r.err
    /\ opi' = IF Outcome(r) = "ok" THEN opi + 1 ELSE opi
    /\ states' = IF Outcome(r) = "ok" THEN keepState(outRows, outDefs) ELSE statesAtEntry

\* ReadCsv stops at an unknown operation, an undeclared argument or a missing state
InvokeFail ==
    /\ status = "running"
    /\ opi <= Len(ops)
    /\ entryError # ""
    /\ status' = "error"
    /\ err' = entryError
    /\ states' = statesAtEntry
    /\ UNCHANGED <<valueDefs, ops, opi, heapRows, heapArr, stdout, files, fixedVars, rows0, log>>
    /\ UNCHANGED md5Vars

\* what ReadCsv and the heap hold once opSort has returned r for the state st
sortApplied(st, r) ==
    /\ heapArr' = IF st.Rows = 0 THEN heapArr ELSE [heapArr EXCEPT ![st.Rows] = r.arr]
    /\ ops' = IF r.err = "" THEN [ops EXCEPT ![opi].Args.order.Values = r.order] ELSE ops
    /\ Advance(r, 0, NoDefs)
    /\ log' = Append(log, LogEntry(Outcome(r), r.arr,
                                   [k \in 1..Len(r.arr) |-> heapRows[r.arr[k]]], st.Defs))

sortExecuted(st) ==
    sortApplied(st, opSort(heapRows, ArrOf(st.Rows), st.Defs, OpFuncArgs(CurOp), legacySort))

\* sort: the slice of the execution state is sorted in place; nothing is returned
InvokeSort ==
    /\ Ready({"sort"})
    /\ sortExecuted(execState)
    /\ UNCHANGED <<valueDefs, heapRows, stdout, files, fixedVars, rows0>>
    /\ UNCHANGED md5Vars

visitOrders(n) == {p \in [1..n -> 1..n] : \A x, y \in 1..n : p[x] = p[y] => x = y}

GroupOp(kind, rws, defs, args) ==
    IF kind = "dupesCount" THEN opDupesCount(rws, defs, args)
    ELSE IF kind = "findDuplicates" THEN opFindDuplicates(rws, defs, args)
    ELSE opMergeDupes(rws, defs, args)

\* the rows r.rows stored as new row objects in a new slice, visited in order p
groupStored(r, n, p, outRows, ids) ==
    /\ heapRows' = heapRows \o outRows
    /\ heapArr' = IF n = 0 THEN heapArr ELSE Append(heapArr, ids)
    /\ Advance(r, IF n = 0 THEN 0 ELSE Len(heapArr) + 1, r.defs)
    /\ log' = Append(log, LogEntry(Outcome(r), ids, outRows, r.defs))

groupApplied(r, n) ==
    \E p \in visitOrders(n) :
        groupStored(r, n, p, [k \in 1..n |-> r.rows[p[k]]], [k \in 1..n |-> Len(heapRows) + k])

groupReturned(r) == groupApplied(r, Len(r.rows))

groupExecuted(st) ==
    groupReturned(GroupOp(CurOp.Operation, Deref(st.Rows), st.Defs, OpFuncArgs(CurOp)))

\* dupesCount, findDuplicates, mergeDupes: new rows in a new slice, the groups
\* in the order the range over the map visits them
InvokeGroup ==
    /\ Ready({"dupesCount", "findDuplicates", "mergeDupes"})
    /\ groupExecuted(execState)
    /\ UNCHANGED <<valueDefs, ops, stdout, files, fixedVars, rows0>>
    /\ UNCHANGED md5Vars

\* opPrint: [err, panic, out]
opPrint(rws, args) ==
    IF "cols" \notin DOMAIN args THEN [err |-> "cols argument not provided", panic |-> FALSE, out |-> <<>>]
    ELSE IF \E k \in 1..Len(rws), c \in 1..Len(args.cols) : args.cols[c] \notin DOMAIN rws[k]
         THEN [err |-> "", panic |-> TRUE, out |-> <<>>]
    ELSE [err |-> "", panic |-> FALSE,
          out |-> <<args.cols>> \o [k \in 1..Len(rws) |-> outVals(rws[k], args.cols)]]

\* print: a terminal sink, it returns no rows and no definitions
InvokePrint ==
    /\ Ready({"print"})
    /\ LET st == execState
           r  == opPrint(Deref(st.Rows), OpFuncArgs(CurOp))
       IN  /\ stdout' = IF Outcome(r) = "ok" THEN Append(stdout, r.out) ELSE stdout
           /\ Advance(r, 0, NoDefs)
           /\ log' = Append(log, LogEntry(Outcome(r), <<>>, <<>>, NoDefs))
    /\ UNCHANGED <<valueDefs, ops, heapRows, heapArr, files, fixedVars, rows0>>
    /\ UNCHANGED md5Vars

\* return rows, nil
Return ==
    /\ status = "running"
    /\ opi > Len(ops)
    /\ status' = "done"
    /\ UNCHANGED <<valueDefs, ops, opi, err, heapRows, heapArr, states, stdout, files, fixedVars,
                   rows0, log>>
    /\ UNCHANGED md5Vars

(***************************************************************************)
(* filesMd5 (opMd5File): one goroutine per row, gated by a buffered channel *)
(***************************************************************************)

\* hex.EncodeToString(md5.Sum(cnt)): the digest is kept as the tagged content
md5Hex(cnt) == <<109, 100, 53, 58>> \o cnt

\* a read that succeeds on every file that exists
fileReadableIfPresent(fs, path) == path \in DOMAIN fs /\ fs[path].exists

\* os.Stat(filename) does not answer IsNotExist
fileExists(fs, path) == path \in DOMAIN fs /\ fs[path].exists

\* ioutil.ReadFile(filename) succeeds
fileReadable(fs, path) == fileExists(fs, path) /\ fs[path].readable

md5ColDef(md5Col) == ColDefOf(md5Col, TypStr, <<>>, FALSE, TRUE)

\* argInt on a string argument
argInt(v) == Atoi(v)

\* if tot < threads { threads = tot }
gateSize(tot, threads) == IF tot < threads THEN tot ELSE threads

\* the argument checks at the head of opMd5File: "" when all pass
md5ArgError(args) ==
    IF "filenameCol" \notin DOMAIN args THEN "'filenameCol' argument not provided"
    ELSE IF "md5Col" \notin DOMAIN args THEN "'md5Col' argument not provided"
    ELSE IF "outCols" \notin DOMAIN args THEN "'outCols' argument not provided"
    ELSE IF "threads" \notin DOMAIN args THEN "'threads' argument not provided"
    ELSE IF ~argInt(args.threads).ok THEN "'threads' must be an integer"
    ELSE ""

NoFrame == [arr |-> 0, ids |-> <<>>, filenameCol |-> "", md5Col |-> "", header |-> <<>>,
            cap |-> 0, entry |-> 0]

Idle(k) == [pc |-> "admit", val |-> <<>>]

\* opMd5File up to wg.Wait(): the header, the channel, and the goroutines
InvokeMd5 ==
    /\ Ready({"filesMd5"})
    /\ LET st   == execState
           args == OpFuncArgs(CurOp)
           e    == md5ArgError(args)
           tot  == Len(ArrOf(st.Rows))
       IN  IF e # ""
           THEN /\ Advance([err |-> e, panic |-> FALSE], 0, NoDefs)
                /\ log' = Append(log, LogEntry("error", <<>>, <<>>, NoDefs))
                /\ UNCHANGED md5Vars
           ELSE IF gateSize(tot, argInt(args.threads).val) < 0
           THEN \* make(chan int, threads) with a negative size
                /\ Advance([err |-> "", panic |-> TRUE], 0, NoDefs)
                /\ log' = Append(log, LogEntry("panic", <<>>, <<>>, NoDefs))
                /\ UNCHANGED md5Vars
           ELSE /\ status' = "hashing"
                /\ frame' = [arr |-> st.Rows, ids |-> ArrOf(st.Rows),
                             filenameCol |-> args.filenameCol, md5Col |-> args.md5Col,
                             header |-> outHeader(st.Defs, args.outCols,
                                                  <<Ptr(md5ColDef(args.md5Col))>>),
                             cap |-> gateSize(tot, argInt(args.threads).val),
                             entry |-> Len(log) + 1]
                /\ task' = [k \in 1..tot |-> Idle(k)]
                /\ ch' = 0
                /\ wg' = tot
                /\ touched' = {}
                /\ states' = statesAtEntry
                /\ log' = Append(log, LogEntry("running", <<>>, <<>>, NoDefs))
                /\ UNCHANGED <<opi, err>>
    /\ UNCHANGED <<valueDefs, ops, heapRows, heapArr, stdout, files, fixedVars, rows0>>

Hashing(k) == status = "hashing" /\ k \in DOMAIN task

TaskRow(k) == heapRows[frame.ids[k]]

\* a gate that admits every task at once
admitUngated(k) == task[k].pc = "admit"

\* ch <- 1: the send completes only while the buffer has room
admitEnabled(k) == task[k].pc = "admit" /\ ch < frame.cap

TaskAdmit(k) ==
    /\ Hashing(k)
    /\ admitEnabled(k)
    /\ ch' = ch + 1
    /\ task' = [task EXCEPT ![k].pc = "stat"]
    /\ UNCHANGED <<frame, wg, touched, files, fixedVars, rows0, valueDefs>>
    /\ UNCHANGED pipeVars

\* filename := r[filenameCol].ValStr(); os.Stat(filename)
TaskStat(k) ==
    /\ Hashing(k)
    /\ task[k].pc = "stat"
    /\ IF frame.filenameCol \notin DOMAIN TaskRow(k)
       THEN /\ status' = "panic"
            /\ UNCHANGED <<task, touched>>
       ELSE /\ touched' = touched \cup {k}
            /\ task' = IF fileExists(files, ValStr(TaskRow(k)[frame.filenameCol]))
                       THEN [task EXCEPT ![k].pc = "read"]
                       ELSE [task EXCEPT ![k] = [pc |-> "store", val |-> <<>>]]
            /\ UNCHANGED status
    /\ UNCHANGED <<frame, ch, wg, files, fixedVars, rows0, valueDefs>>
    /\ UNCHANGED <<ops, opi, err, heapRows, heapArr, states, stdout, log>>

\* cnt, err := ioutil.ReadFile(filename); md5.Sum(cnt)
TaskRead(k) ==
    /\ Hashing(k)
    /\ task[k].pc = "read"
    /\ touched' = touched \cup {k}
    /\ LET path == ValStr(TaskRow(k)[frame.filenameCol])
       IN  task' = IF fileReadable(files, path)
                   THEN [task EXCEPT ![k] = [pc |-> "store", val |-> md5Hex(files[path].cnt)]]
                   ELSE [task EXCEPT ![k] = [pc |-> "store", val |-> <<>>]]
    /\ UNCHANGED <<frame, ch, wg, files, fixedVars, rows0, valueDefs>>
    /\ UNCHANGED pipeVars

\* r[md5Col], _ = NewValue(md5ColDef, ...)
TaskStore(k) ==
    /\ Hashing(k)
    /\ task[k].pc = "store"
    /\ LET r  == TaskRow(k)
           nv == NewValue(md5ColDef(frame.md5Col), task[k].val)
       IN  heapRows' = [heapRows EXCEPT ![frame.ids[k]] =
                           [c \in DOMAIN r \cup {frame.md5Col} |->
                               IF c = frame.md5Col THEN nv.val ELSE r[c]]]
    /\ task' = [task EXCEPT ![k].pc = "release"]
    /\ UNCHANGED <<frame, ch, wg, touched, files, fixedVars, rows0, valueDefs>>
    /\ UNCHANGED <<ops, opi, status, err, heapArr, states, stdout, log>>

\* <-ch
TaskRelease(k) ==
    /\ Hashing(k)
    /\ task[k].pc = "release"
    /\ ch > 0
    /\ ch' = ch - 1
    /\ task' = [task EXCEPT ![k].pc = "finish"]
    /\ UNCHANGED <<frame, wg, touched, files, fixedVars, rows0, valueDefs>>
    /\ UNCHANGED pipeVars

\* wg.Done()
TaskDone(k) ==
    /\ Hashing(k)
    /\ task[k].pc = "finish"
    /\ wg' = wg - 1
    /\ task' = [task EXCEPT ![k].pc = "done"]
    /\ UNCHANGED <<frame, ch, touched, files, fixedVars, rows0, valueDefs>>
    /\ UNCHANGED pipeVars

\* a barrier that lets the caller through at once
waitSkipped == TRUE

\* wg.Wait() returns once the counter is back to zero
waitReturns == wg = 0

\* wg.Wait() returns; outDefs is built and (cpRows, outDefs) returned
Md5Return ==
    /\ status = "hashing"
    /\ waitReturns
    /\ LET nilDef == \E i \in 1..Len(frame.header) : frame.header[i] = Nil
           r      == [err |-> "", panic |-> nilDef]
           outDefs == IF nilDef THEN NoDefs ELSE outDefsOf(frame.header)
       IN  /\ Advance(r, frame.arr, outDefs)
           /\ log' = [log EXCEPT ![frame.entry].outcome = Outcome(r),
                                 ![frame.entry].outIds = frame.ids,
                                 ![frame.entry].outRows = Deref(frame.arr),
                                 ![frame.entry].outDefs = outDefs]
    /\ UNCHANGED <<valueDefs, ops, heapRows, heapArr, stdout, files, fixedVars, rows0>>
    /\ UNCHANGED md5Vars

\* every goroutine is blocked on the channel send and main on wg.Wait(): the Go
\* runtime ends the process ("all goroutines are asleep - deadlock!")
Md5Stuck ==
    /\ status = "hashing"
    /\ wg > 0
    /\ \A k \in DOMAIN task : task[k].pc \in {"admit", "done"}
    /\ \A k \in DOMAIN task : ~admitEnabled(k)
    /\ status' = "deadlock"
    /\ log' = [log EXCEPT ![frame.entry].outcome = "deadlock"]
    /\ UNCHANGED <<valueDefs, ops, opi, err, heapRows, heapArr, states, stdout, files,
                   fixedVars, rows0>>
    /\ UNCHANGED md5Vars

TaskStep ==
    \E k \in DOMAIN task :
        \/ TaskAdmit(k)
        \/ TaskStat(k)
        \/ TaskRead(k)
        \/ TaskStore(k)
        \/ TaskRelease(k)
        \/ TaskDone(k)

(***************************************************************************)
(* Initial states: a row-build pass over a raw input, then the pipeline     *)
(***************************************************************************)

StrCol(name) == ColDefOf(name, TypStr, <<>>, FALSE, FALSE)

IntCol(name) == ColDefOf(name, TypInt, <<>>, FALSE, FALSE)

\* NewHeader: the definition recognised at each input position, if any
NewHeader(defs, header) ==
    [hi \in 1..Len(header) |-> IF header[hi] \in DOMAIN defs THEN Ptr(defs[header[hi]]) ELSE Nil]

OpConf(name, operation, keep, from, args) ==
    [Name |-> name, Operation |-> operation, KeepState |-> keep, FromState |-> from,
     Args |-> args]

ListArg(values) == [Value |-> <<>>, Values |-> values]

ScalarArg(value) == [Value |-> value, Values |-> <<>>]

\* the state ReadCsv is in when the row-build pass over recs has ended
Built(defs, header, recs, opList, fs, legacy) ==
    LET hd    == NewHeader(defs, header)
        built == [k \in 1..Len(recs) |-> NewRow(hd, recs[k])]
        good  == \A k \in 1..Len(recs) : built[k].ok
        rws   == IF good THEN [k \in 1..Len(recs) |-> built[k].row] ELSE <<>>
    IN  /\ valueDefs = defs
        /\ ops = opList
        /\ opi = 1
        /\ status = IF good THEN "running" ELSE "error"
        /\ err = IF good THEN "" ELSE "NewRow"
        /\ heapRows = rws
        /\ heapArr = << [k \in 1..Len(rws) |-> k] >>
        /\ states = [x \in {} |-> OpState(0, NoDefs)]
        /\ stdout = <<>>
        /\ files = fs
        /\ legacySort = legacy
        /\ frame = NoFrame
        /\ task = <<>>
        /\ ch = 0
        /\ wg = 0
        /\ touched = {}
        /\ rows0 = rws
        /\ log = <<>>
        /\ input = <<header>> \o recs
        /\ recIndex = Len(recs) + 1
        /\ csvHeader = hd
        /\ calls = <<>>
        /\ probe = <<>>
        /\ reg = <<>>

SeqsUpTo(S, n) == UNION {[1..k -> S] : k \in 0..n}

\* file paths and the file system of the model
P_f1 == <<102, 49>>
P_f2 == <<102, 50>>
P_f3 == <<102, 51>>

FileSystem ==
    (P_f1 :> [exists |-> TRUE, readable |-> TRUE, cnt |-> T_ab]) @@
    (P_f3 :> [exists |-> TRUE, readable |-> FALSE, cnt |-> <<>>])

OpNames == <<"op1", "op2", "op3", "op4", "op5">>

(***************************************************************************)
(* Spec: pipelines of up to MaxOps invocations over small datasets          *)
(***************************************************************************)

MaxOps == 3

PipeDefs ==
    [id |-> StrCol("id"), code |-> StrCol("code"), n |-> IntCol("n"), file |-> StrCol("file")]

PipeHeader == <<"id", "code", "junk", "n", "file">>

PipeDatasets ==
    { << <<T_1, T_b, T_v, T_2, P_f1>>, <<T_2, T_a, T_v, T_1, P_f2>> >>,
      << <<T_1, T_b, T_v, T_2, P_f1>>, <<T_2, T_b, T_v, T_1, P_f3>> >> }

PipeArgs ==
    [sort       |-> [cols |-> ListArg(<<"code", "n">>), order |-> ListArg(<<"asc", "asc">>)],
     dupesCount |-> [indexCols |-> ListArg(<<"code">>), outCols |-> ListArg(<<"id", "code">>),
                     countCol |-> ScalarArg("cnt"), gt |-> ScalarArg(T_0)],
     filesMd5   |-> [filenameCol |-> ScalarArg("file"), md5Col |-> ScalarArg("md5"),
                     outCols |-> ListArg(<<"id", "code", "n", "file">>),
                     threads |-> ScalarArg(T_1)]]

PipeSources == {"", "op1", "op2"}

\* what one invocation of a pipeline is drawn from: operation, keepState, fromState
PipeChoices(kinds) == kinds \X BOOLEAN \X PipeSources

\* the pipeline whose k-th invocation is named OpNames[k] and configured by c[k]
PipeOps(c) ==
    [k \in 1..Len(c) |-> OpConf(OpNames[k], c[k][1], c[k][2], c[k][3], PipeArgs[c[k][1]])]

Init ==
    \E recs \in PipeDatasets, len \in 0..MaxOps :
        \E c \in [1..len -> PipeChoices(DOMAIN PipeArgs)] :
            Built(PipeDefs, PipeHeader, recs, PipeOps(c), FileSystem, FALSE)

Next ==
    \/ InvokeFail
    \/ InvokeSort
    \/ InvokeGroup
    \/ InvokeMd5
    \/ TaskStep
    \/ Md5Return
    \/ Return

Spec == Init /\ [][Next]_vars

(***************************************************************************)
(* SpecPipe: pipelines of sort and dupesCount invocations, for the registry *)
(* of named states                                                          *)
(***************************************************************************)

MaxPipeOps == 3

InitPipe ==
    \E recs \in PipeDatasets, len \in 0..MaxPipeOps :
        \E c \in [1..len -> PipeChoices({"sort", "dupesCount"})] :
            Built(PipeDefs, PipeHeader, recs, PipeOps(c), FileSystem, FALSE)

NextPipe ==
    \/ InvokeFail
    \/ InvokeSort
    \/ InvokeGroup
    \/ Return

SpecPipe == InitPipe /\ [][NextPipe]_vars

(***************************************************************************)
(* Claims about the pipeline executor (checked under Spec)                  *)
(***************************************************************************)

Executed == 1..Len(log)

\* C1: every invocation that omits fromState receives the base dataset exactly
\* as the row-build pass produced it (same rows, same order, same columns and
\* values), whatever ran before it.
C1_DefaultStateIsUnmodifiedBase ==
    \A j \in Executed :
        log[j].from = "" => log[j].recvRows = rows0 /\ log[j].recvDefs = valueDefs

\* C2: a later invocation whose fromState names a retaining, non-terminal
\* invocation receives exactly the rows and column definitions that invocation
\* produced (for sort: the sorted rows).
C2_RetainedStateIsWhatWasProduced ==
    \A i, j \in Executed :
        (/\ i < j
         /\ ops[log[i].opi].KeepState
         /\ log[i].operation \in {"sort", "dupesCount", "findDuplicates", "mergeDupes", "filesMd5"}
         /\ log[j].from = log[i].name)
        => (log[j].recvRows = log[i].outRows /\ log[j].recvDefs = log[i].outDefs)

\* the names that are valid source states for the invocation at position k:
\* the first invocation's name, and the names of the retaining invocations before k
RetainedBefore(k) ==
    {ops[i].Name : i \in {x \in 1..Len(ops) : x = 1 \/ (x < k /\ ops[x].KeepState)}}

StateNotFound == "state does not exist or was never kept"

MissingSource ==
    /\ status = "running"
    /\ opi <= Len(ops)
    /\ CurOp.Operation \in DOMAIN operations
    /\ DOMAIN CurOp.Args \subseteq DOMAIN operations[CurOp.Operation]
    /\ CurOp.FromState # ""
    /\ CurOp.FromState \notin RetainedBefore(opi)

\* C3: an invocation whose fromState is not a retained state at that point of
\* the pipeline fails with "state not found": its operation is not executed
\* (no row, slice or output changes, nothing is logged as executed), and once
\* the run has failed no later invocation runs.
C3_MissingStateStopsTheRun ==
    [][ /\ MissingSource =>
            /\ status' = "error"
            /\ err' = StateNotFound
            /\ UNCHANGED <<opi, heapRows, heapArr, stdout, log>>
        /\ status = "error" => UNCHANGED vars ]_vars

\* C3 witness: the run has stopped at an invocation whose source state is only
\* retained by a later invocation, which therefore never ran
C3_Witness ==
    /\ status = "error"
    /\ err = StateNotFound
    /\ \E i \in (opi + 1)..Len(ops) : ops[i].Name = CurOp.FromState /\ ops[i].KeepState
    /\ Len(log) = opi - 1

\* C4: the base dataset is registered under the first invocation's name: a later
\* invocation with that fromState is never refused and receives the original
\* state (the base slice and the configured definitions) even though the first
\* invocation did not retain; and the only other valid source names are those
\* of retaining invocations that have run.
C4_FirstNameIsBaseState ==
    Len(ops) >= 1 =>
        /\ \A j \in Executed :
              (log[j].opi > 1 /\ log[j].from = ops[1].Name /\ ~ops[1].KeepState)
              => /\ log[j].recvArr = BaseArr
                 /\ log[j].recvDefs = valueDefs
                 /\ Len(log[j].recvRows) = Len(rows0)
        /\ (status = "error" /\ err = StateNotFound) => CurOp.FromState # ops[1].Name
        /\ status # "error" =>
              DOMAIN states \subseteq
                 {ops[1].Name} \cup {ops[i].Name : i \in {x \in 1..(opi - 1) : ops[x].KeepState}}

\* C4 witness: a later invocation has run from the first invocation's name,
\* which the first invocation did not retain
C4_Witness ==
    \E j \in Executed :
        /\ log[j].opi > 1
        /\ log[j].from = ops[1].Name
        /\ ~ops[1].KeepState
        /\ log[j].outcome = "ok"

(***************************************************************************)
(* SpecSort: one sort invocation over every small dataset                   *)
(***************************************************************************)

MaxSortRows == 3

SortDefs == [s |-> StrCol("s"), n |-> IntCol("n")]

SortHeader == <<"s", "n">>

SortCells == {<<T_a, T_1>>, <<T_a, T_2>>, <<T_b, T_1>>}

SortArgs ==
    { [cols |-> ListArg(<<"s">>), order |-> ListArg(<<"asc">>)],
      [cols |-> ListArg(<<"s", "n">>), order |-> ListArg(<<"asc", "desc">>)],
      [cols |-> ListArg(<<"n", "s">>), order |-> ListArg(<<"desc", "asc">>)],
      [cols |-> ListArg(<<"n", "s", "n">>), order |-> ListArg(<<"up", "desc", "asc">>)],
      [cols |-> ListArg(<<"s">>), order |-> ListArg(<<>>)] }

\* a sort on seven columns lets a slice of seven rows be compared at every
\* position; seven rows is the shortest slice the gap-6 pass acts on
WideArgs ==
    [cols |-> ListArg(<<"s", "n", "s", "n", "s", "n", "s">>),
     order |-> ListArg(<<"asc", "asc", "asc", "asc", "asc", "asc", "asc">>)]

WideCells == {<<T_a, T_1>>, <<T_b, T_1>>}

SortInputs ==
    (SeqsUpTo(SortCells, MaxSortRows) \X SortArgs)
        \cup ([1..Len(WideArgs.cols.Values) -> WideCells] \X {WideArgs})

InitSort ==
    \E in \in SortInputs, legacy \in BOOLEAN :
        Built(SortDefs, SortHeader, in[1], <<OpConf("op1", "sort", FALSE, "", in[2])>>,
              FileSystem, legacy)

NextSort ==
    \/ InvokeSort
    \/ Return

SpecSort == InitSort /\ [][NextSort]_vars

\* the configured direction of sort column k: anything but "desc" sorts ascending
DirOf(order, k) == IF order[k] = "desc" THEN "desc" ELSE "asc"

\* -1, 0, 1: the comparison of two rows on one sort column, by the string form
\* for a string column and by the float projection for an int or float column
ColCmp(defs, col, r1, r2) ==
    IF defs[col].Type = TypStr
    THEN IF StrLess(r1[col].valStr, r2[col].valStr) THEN 0 - 1
         ELSE IF StrLess(r2[col].valStr, r1[col].valStr) THEN 1 ELSE 0
    ELSE IF r1[col].valFloat[1] < r2[col].valFloat[1] THEN 0 - 1
         ELSE IF r1[col].valFloat[1] > r2[col].valFloat[1] THEN 1 ELSE 0

\* r1 must come strictly before r2: on the first sort column where they
\* differ, r1 is smaller (asc) or greater (desc)
RECURSIVE MustPrecede(_, _, _, _, _, _)
MustPrecede(defs, cols, order, r1, r2, k) ==
    IF k > Len(cols) THEN FALSE
    ELSE LET c == ColCmp(defs, cols[k], r1, r2)
         IN  IF c = 0 THEN MustPrecede(defs, cols, order, r1, r2, k + 1)
             ELSE IF DirOf(order, k) = "asc" THEN c < 0 ELSE c > 0

SameKey(defs, cols, r1, r2) == \A k \in 1..Len(cols) : ColCmp(defs, cols[k], r1, r2) = 0

IsPermutationOf(a, b) ==
    /\ Len(a) = Len(b)
    /\ \A x \in 1..Len(a) :
          Cardinality({k \in 1..Len(a) : a[k] = a[x]}) = Cardinality({k \in 1..Len(b) : b[k] = a[x]})

PosIn(seq, x) == CHOOSE k \in 1..Len(seq) : seq[k] = x

SortRuns == {j \in Executed : log[j].operation = "sort" /\ log[j].outcome # "error"}

\* C5: sort leaves the rows a permutation of its input, ordered by the
\* configured columns in priority order, each in its own direction (order[k]
\* applies to cols[k]); for every row count and number of sort columns.
C5_SortOrdersByColumns ==
    \A j \in SortRuns :
        LET e == log[j]
            ordr == ops[e.opi].Args.order.Values
        IN  /\ e.outcome = "ok"
            /\ IsPermutationOf(e.outIds, e.recvIds)
            /\ \A k \in 1..(Len(e.outRows) - 1) :
                  ~MustPrecede(e.recvDefs, e.args.cols, ordr, e.outRows[k + 1], e.outRows[k], 1)

\* C6: sort is stable: two rows equal on every sort column leave the sort in
\* the relative order they entered it.
C6_SortIsStable ==
    \A j \in SortRuns :
        LET e == log[j]
        IN  e.outcome = "ok" =>
              \A a, b \in 1..Len(e.recvIds) :
                  (a < b /\ SameKey(e.recvDefs, e.args.cols, e.recvRows[a], e.recvRows[b]))
                  => PosIn(e.outIds, e.recvIds[a]) < PosIn(e.outIds, e.recvIds[b])

(***************************************************************************)
(* SpecGroup: one grouping invocation over every small dataset              *)
(***************************************************************************)

MaxGroupRows == 3

T_true  == <<116, 114, 117, 101>>
T_false == <<102, 97, 108, 115, 101>>

GroupDefs == [id |-> StrCol("id"), code |-> StrCol("code"), x |-> StrCol("x")]

GroupHeader == <<"id", "code", "x">>

\* the code and x cells of a record; its id is its position in the input
GroupCells == {T_a, T_ab} \X {<<>>, T_b}

GroupDatasets ==
    { [k \in 1..Len(c) |-> <<Itoa(k), c[k][1], c[k][2]>>] : c \in SeqsUpTo(GroupCells, MaxGroupRows) }

GroupIndexCols == {<<"code">>, <<"code", "x">>}

GroupConfs ==
    { OpConf("op1", "dupesCount", FALSE, "",
             [indexCols |-> ListArg(ic), outCols |-> ListArg(<<"id", "x">>),
              countCol |-> ScalarArg("cnt"), gt |-> ScalarArg(g)])
        : ic \in GroupIndexCols, g \in {T_0, T_1, T_2} }
    \cup
    { OpConf("op1", "findDuplicates", FALSE, "",
             [indexCols |-> ListArg(ic), outCols |-> ListArg(<<"id", "code">>),
              idCol |-> ScalarArg("id"), dupeIdsCol |-> ScalarArg("similar"),
              sep |-> ScalarArg(T_semi)])
        : ic \in GroupIndexCols }
    \cup
    { OpConf("op1", "mergeDupes", FALSE, "",
             [indexCols |-> ListArg(<<"code">>), outCols |-> ListArg(<<"code", "x", "id">>),
              mergeValues |-> ScalarArg(mv)])
        : mv \in {T_true, T_false} }

InitGroup ==
    \E recs \in GroupDatasets, c \in GroupConfs :
        Built(GroupDefs, GroupHeader, recs, <<c>>, FileSystem, FALSE)

NextGroup ==
    \/ InvokeGroup
    \/ Return

SpecGroup == InitGroup /\ [][NextGroup]_vars

\* the grouping key of a row: the string forms of the index columns, concatenated
GroupKey(row, cols) == Join([k \in 1..Len(cols) |-> row[cols[k]].valStr], <<>>)

\* the positions of the rows of rws that share the key of the row at position k
GroupOf(rws, cols, k) ==
    {m \in 1..Len(rws) : GroupKey(rws[m], cols) = GroupKey(rws[k], cols)}

\* the positions of the first-seen member of each group
Firsts(rws, cols) == {k \in 1..Len(rws) : \A m \in GroupOf(rws, cols, k) : k <= m}

Min(S) == CHOOSE x \in S : \A y \in S : x <= y

Max(S) == CHOOSE x \in S : \A y \in S : x >= y

\* the members of a set of positions, in increasing order
RECURSIVE Ascending(_)
Ascending(S) == IF S = {} THEN <<>> ELSE <<Min(S)>> \o Ascending(S \ {Min(S)})

\* a row reduced to the string forms of its cells
Strs(row) == [c \in DOMAIN row |-> row[c].valStr]

\* the cells of the columns cols of a row, as string forms
Cells(row, cols) == [c \in {cols[i] : i \in 1..Len(cols)} |-> row[c].valStr]

\* out holds exactly the rows expected[k], k in keys, each as often as expected
SameRows(out, expected, keys) ==
    /\ Len(out) = Cardinality(keys)
    /\ \A k \in keys :
          Cardinality({o \in 1..Len(out) : Strs(out[o]) = expected[k]})
              = Cardinality({m \in keys : expected[m] = expected[k]})

RunsOf(kind) == {j \in Executed : log[j].operation = kind}

\* C7: dupesCount emits exactly one row for each group whose size is strictly
\* greater than gt and none for a group of size <= gt; the row carries the
\* outCols values of the group's first-seen member and the group size in the
\* count column.
C7_DupesCountEmitsLargeGroups ==
    \A j \in RunsOf("dupesCount") :
        LET e    == log[j]
            in   == e.recvRows
            cols == e.args.indexCols
            gt   == Atoi(e.args.gt).val
            big  == {k \in Firsts(in, cols) : Cardinality(GroupOf(in, cols, k)) > gt}
            expected == [k \in big |->
                            (e.args.countCol :> Itoa(Cardinality(GroupOf(in, cols, k))))
                                @@ Cells(in[k], e.args.outCols)]
        IN  /\ e.outcome = "ok"
            /\ SameRows(e.outRows, expected, big)
            /\ \A o \in 1..Len(e.outRows) :
                  e.outRows[o][e.args.countCol].valInt \in
                      {Ptr(Cardinality(GroupOf(in, cols, k))) : k \in big}

\* C7 witness: a run with threshold 1 that reported a group of two and
\* suppressed a group of one
C7_Witness ==
    \E j \in RunsOf("dupesCount") :
        /\ log[j].outcome = "ok"
        /\ log[j].args.gt = T_1
        /\ Len(log[j].outRows) = 1
        /\ log[j].outRows[1].cnt.valStr = T_2
        /\ Len(log[j].recvRows) = 3

\* C8: findDuplicates emits exactly one row per group of two or more and none
\* for a group of one; the row takes outCols from the first-seen member and its
\* extra column joins, with sep, the idCol values of the other members in
\* first-seen order (the first member's id is not listed).
C8_FindDuplicatesListsTheOthers ==
    \A j \in RunsOf("findDuplicates") :
        LET e    == log[j]
            in   == e.recvRows
            cols == e.args.indexCols
            big  == {k \in Firsts(in, cols) : Cardinality(GroupOf(in, cols, k)) >= 2}
            others(k) == Ascending(GroupOf(in, cols, k) \ {k})
            expected == [k \in big |->
                            (e.args.dupeIdsCol :>
                                Join([i \in 1..Len(others(k)) |->
                                         in[others(k)[i]][e.args.idCol].valStr], e.args.sep))
                                @@ Cells(in[k], e.args.outCols)]
        IN  /\ e.outcome = "ok"
            /\ SameRows(e.outRows, expected, big)

\* C8 witness: a group of three was reported with its two other members listed
C8_Witness ==
    \E j \in RunsOf("findDuplicates") :
        /\ log[j].outcome = "ok"
        /\ Len(log[j].outRows) = 1
        /\ log[j].outRows[1].id.valStr = T_1
        /\ log[j].outRows[1].similar.valStr = T_2 \o T_semi \o T_3

\* C9: mergeDupes emits exactly one row per group; each output column holds the
\* first member's value when mergeValues is disabled, and when it is enabled
\* the first non-empty value in first-seen order, or the last member's value
\* when every member's value is empty.
C9_MergeDupesPicksValues ==
    \A j \in RunsOf("mergeDupes") :
        LET e    == log[j]
            in   == e.recvRows
            cols == e.args.indexCols
            enabled == e.args.mergeValues = T_true
            filled(k, c) == {m \in GroupOf(in, cols, k) : in[m][c].valStr # <<>>}
            pick(k, c) ==
                IF ~enabled THEN in[k][c].valStr
                ELSE IF filled(k, c) # {} THEN in[Min(filled(k, c))][c].valStr
                ELSE in[Max(GroupOf(in, cols, k))][c].valStr
            outCols == {e.args.outCols[i] : i \in 1..Len(e.args.outCols)}
            expected == [k \in Firsts(in, cols) |-> [c \in outCols |-> pick(k, c)]]
        IN  /\ e.outcome = "ok"
            /\ SameRows(e.outRows, expected, Firsts(in, cols))

\* C9 witness: with mergeValues enabled a group whose first member has an
\* empty x was merged into a row holding a later member's x
C9_Witness ==
    \E j \in RunsOf("mergeDupes") :
        /\ log[j].outcome = "ok"
        /\ log[j].args.mergeValues = T_true
        /\ \E o \in 1..Len(log[j].outRows), k \in 1..Len(log[j].recvRows) :
              /\ log[j].outRows[o].id.valStr = log[j].recvRows[k].id.valStr
              /\ log[j].recvRows[k].x.valStr = <<>>
              /\ log[j].outRows[o].x.valStr = T_b

(***************************************************************************)
(* SpecMd5: one filesMd5 invocation, its tasks interleaved in every order   *)
(***************************************************************************)

MaxMd5Rows == 3

T_neg1 == <<45, 49>>

Md5Defs == [id |-> StrCol("id"), file |-> StrCol("file")]

Md5Header == <<"id", "file">>

\* the file of the k-th row: readable, missing, unreadable, readable, ...
Md5Path(k) == <<P_f1, P_f2, P_f3>>[((k - 1) % 3) + 1]

Md5Datasets ==
    { [k \in 1..n |-> <<Itoa(k), Md5Path(k)>>] : n \in 0..MaxMd5Rows }

Md5Threads == {T_neg1, T_0, T_1, T_2, T_3}

Md5Confs ==
    { OpConf("op1", "filesMd5", FALSE, "",
             [filenameCol |-> ScalarArg(fc), md5Col |-> ScalarArg("md5"),
              outCols |-> ListArg(oc), threads |-> ScalarArg(t)])
        : fc \in {"file", "path"}, t \in Md5Threads, oc \in {<<"id", "file">>, <<"id">>} }

InitMd5 ==
    \E recs \in Md5Datasets, c \in Md5Confs :
        Built(Md5Defs, Md5Header, recs, <<c>>, FileSystem, FALSE)

NextMd5 ==
    \/ InvokeMd5
    \/ TaskStep
    \/ Md5Return
    \/ Md5Stuck
    \/ Return

SpecMd5 == InitMd5 /\ [][NextMd5]_vars

\* the tasks between their admission and their release of the gate
InPhase == {k \in DOMAIN task : task[k].pc \in {"stat", "read", "store", "release"}}

\* the thread count the running filesMd5 invocation was configured with
ConfiguredThreads == Atoi(ops[log[frame.entry].opi].Args.threads.Value).val

\* C10: while filesMd5 runs, under every interleaving, the tasks that passed
\* admission and have not released it number at most the configured thread
\* count, and a task that has not been admitted has not touched the filesystem.
C10_GateBoundsConcurrency ==
    status = "hashing" =>
        /\ Cardinality(InPhase) <= ConfiguredThreads
        /\ \A k \in DOMAIN task : task[k].pc = "admit" => k \notin touched

\* C10 witness: with two threads configured, two tasks are in their file phase,
\* one of them has read its file, and a third waits at the gate
C10_Witness ==
    /\ status = "hashing"
    /\ ConfiguredThreads = 2
    /\ Cardinality(InPhase) = 2
    /\ touched # {}
    /\ \E k \in DOMAIN task : task[k].pc = "admit"

\* the step in which the running filesMd5 call hands its result to ReadCsv
Md5Returning == status = "hashing" /\ status' # "hashing" /\ log'[frame.entry].outcome = "ok"

\* the tasks whose row is the row object id
TasksOf(id) == {k \in DOMAIN task : frame.ids[k] = id}

\* C11: filesMd5 returns only after every per-row task has finished: when the
\* result is handed over every input row holds its md5 column and no task is
\* running or blocked, and a row is only ever written by the one task that
\* owns it, which writes it once.
C11_BarrierAndRowOwnership ==
    [][ /\ Md5Returning =>
              /\ \A k \in DOMAIN task : task[k].pc = "done"
              /\ \A k \in DOMAIN task : frame.md5Col \in DOMAIN heapRows[frame.ids[k]]
              /\ Len(log'[frame.entry].outRows) = Len(log[frame.entry].recvRows)
        /\ \A id \in DOMAIN heapRows :
              heapRows'[id] # heapRows[id] =>
                  /\ Cardinality(TasksOf(id)) = 1
                  /\ \A k \in TasksOf(id) :
                        /\ task[k].pc = "store" /\ task'[k].pc = "release"
                        /\ frame.md5Col \notin DOMAIN heapRows[id]
      ]_vars

\* C11 witness: a call over three rows has returned, every task is done and
\* every row holds an md5 value, one of them a digest
C11_Witness ==
    /\ status \in {"running", "done"}
    /\ Len(log) = 1 /\ log[1].operation = "filesMd5" /\ log[1].outcome = "ok"
    /\ Len(log[1].outRows) = 3
    /\ \A k \in 1..3 : task[k].pc = "done" /\ "md5" \in DOMAIN log[1].outRows[k]
    /\ \E k \in 1..3 : log[1].outRows[k].md5.valStr # <<>>

\* C12: in a call configured with at least one thread over rows that have the
\* file name column, a row whose file is missing or unreadable gets an empty
\* md5 value and the call still succeeds with a value for every row; a row
\* whose file is readable gets the digest of the file's bytes.
C12_PerRowFailureIsEmptyHash ==
    \A j \in RunsOf("filesMd5") :
        LET e  == log[j]
            fc == e.args.filenameCol
        IN  (/\ e.outcome # "running"
             /\ Atoi(e.args.threads).val >= 1
             /\ \A k \in 1..Len(e.recvRows) : fc \in DOMAIN e.recvRows[k]) =>
                /\ e.outcome = "ok"
                /\ Len(e.outRows) = Len(e.recvRows)
                /\ \A k \in 1..Len(e.recvRows) :
                      LET path == e.recvRows[k][fc].valStr
                          good == /\ path \in DOMAIN files
                                  /\ files[path].exists /\ files[path].readable
                      IN  e.outRows[k][e.args.md5Col].valStr =
                              IF good THEN md5Hex(files[path].cnt) ELSE <<>>

\* C12 witness: one call hashed a readable file and left an empty value for a
\* missing file and for an unreadable one
C12_Witness ==
    \E j \in RunsOf("filesMd5") :
        /\ log[j].outcome = "ok"
        /\ Len(log[j].outRows) = 3
        /\ log[j].outRows[1].md5.valStr = md5Hex(T_ab)
        /\ log[j].outRows[2].md5.valStr = <<>>
        /\ log[j].outRows[3].md5.valStr = <<>>

(***************************************************************************)
(* SpecValue: NewValue applied to every small column definition and string  *)
(***************************************************************************)

\* no pipeline, no input, no registry: the state around a function under study
Bench ==
    /\ valueDefs = NoDefs
    /\ ops = <<>>
    /\ opi = 1
    /\ err = ""
    /\ heapRows = <<>>
    /\ heapArr = << <<>> >>
    /\ states = [x \in {} |-> OpState(0, NoDefs)]
    /\ stdout = <<>>
    /\ files = FileSystem
    /\ legacySort = FALSE
    /\ frame = NoFrame
    /\ task = <<>>
    /\ ch = 0
    /\ wg = 0
    /\ touched = {}
    /\ rows0 = <<>>
    /\ log = <<>>
    /\ input = <<>>
    /\ recIndex = 0
    /\ csvHeader = <<>>
    /\ calls = <<>>

benchVars == <<valueDefs, ops, opi, err, heapRows, heapArr, states, stdout, files, legacySort,
               frame, task, ch, wg, touched, rows0, log, input, recIndex, csvHeader, calls>>

T_half == <<48, 46, 53>>
T_nhalf == <<45, 48, 46, 53>>
T_1h   == <<49, 46, 53>>
T_pad2 == <<32, 50, 9>>
T_no   == <<110, 111>>
T_No   == <<78, 111>>
T_yes  == <<121, 101, 115>>
T_a_b  == <<97, 32, 98>>

ValueRaws ==
    {<<>>, T_sp, <<9, 32>>, T_0, T_1, T_2, T_10, T_neg1, T_half, T_nhalf, T_1h, T_pad2,
     T_a, T_A, T_no, T_No, T_yes, T_a_b, <<32, 97>>}

ValueDefaults == {<<>>, T_1, T_a, T_half}

ValueColDefs ==
    { ColDefOf("c", t, d, ne, FALSE)
        : t \in {TypStr, TypInt, TypFloat, TypBool}, d \in ValueDefaults, ne \in BOOLEAN }

InitValue ==
    /\ Bench
    /\ status = "probing"
    /\ reg = <<>>
    /\ \E d \in ValueColDefs, raw \in ValueRaws :
          probe = [fn |-> "NewValue", def |-> d, raw |-> raw, out |-> Nil]

\* val, err := NewValue(def, raw)
ApplyNewValue ==
    /\ status = "probing"
    /\ probe.fn = "NewValue"
    /\ probe' = [probe EXCEPT !.out = Ptr(NewValue(probe.def, probe.raw))]
    /\ status' = "probed"
    /\ UNCHANGED <<benchVars, reg>>

NextValue == ApplyNewValue

SpecValue == InitValue /\ [][NextValue]_vars

\* a NewValue call has returned: what it returned
Constructed == status = "probed" /\ probe.fn = "NewValue"

\* C13: for every Value constructed for an int or a float column, the boolean
\* projection is true iff the column's own numeric projection (the integer of
\* an int column, the float of a float column) is <= 0.
C13_BoolProjectionFollowsOwnNumber ==
    (Constructed /\ probe.out[1].ok) =>
        LET v == probe.out[1].val
        IN  /\ probe.def.Type = TypInt => (v.valBool[1] <=> v.valInt[1] <= 0)
            /\ probe.def.Type = TypFloat => (v.valBool[1] <=> v.valFloat[1] <= 0)

\* t is s without its leading and trailing white space
IsTrimOf(t, s) ==
    \E i \in 1..(Len(s) + 1), j \in 0..Len(s) :
        /\ t = SubSeq(s, i, j)
        /\ \A k \in 1..Len(s) : (k < i \/ k > j) => IsSpace(s[k])
        /\ t # <<>> => ~IsSpace(t[1]) /\ ~IsSpace(t[Len(t)])

\* C14: construction on a raw string that is empty after trimming uses the
\* column's non-empty default; otherwise a non-string column gets "0";
\* otherwise a required column fails with the missing-value error; otherwise
\* the value stays empty. A non-empty raw string is kept in its trimmed form.
C14_EmptyRawStringPolicy ==
    Constructed =>
        LET d   == probe.def
            out == probe.out[1]
            blank == IsTrimOf(<<>>, probe.raw)
        IN  IF ~blank
            THEN /\ out.ok => IsTrimOf(out.val.valStr, probe.raw)
                 /\ d.Type \in {TypStr, TypBool} => out.ok
                 /\ ~out.ok => out.err \in {"not a number", "not a float"}
            ELSE IF d.Default # <<>>
            THEN /\ out.ok => out.val.valStr = d.Default
                 /\ d.Type \in {TypStr, TypBool} => out.ok
                 /\ ~out.ok => out.err \in {"not a number", "not a float"}
            ELSE IF d.Type # TypStr
            THEN out.ok /\ out.val.valStr = T_0
            ELSE IF d.NotEmpty
            THEN ~out.ok /\ out.err = "required value is empty"
            ELSE out.ok /\ out.val.valStr = <<>>

\* C14 witness: a required int column without a default was given white space
\* and holds "0"
C14_Witness ==
    /\ Constructed
    /\ probe.def.Type = TypInt /\ probe.def.NotEmpty /\ probe.def.Default = <<>>
    /\ probe.raw = T_sp
    /\ probe.out[1].ok /\ probe.out[1].val.valStr = T_0

(***************************************************************************)
(* Parsers: the registry, argument resolution, validation                   *)
(***************************************************************************)

ToUpper(s) == [k \in 1..Len(s) |-> IF s[k] \in 97..122 THEN s[k] - 32 ELSE s[k]]

\* strings.Contains(s, term)
Contains(s, term) ==
    \E i \in 0..(Len(s) - Len(term)) : SubSeq(s, i + 1, i + Len(term)) = term

\* filepath.Ext(path): the suffix from the last dot of the last path element
FilepathExt(path) ==
    LET dots == {i \in 1..Len(path) : path[i] = 46 /\ \A j \in i..Len(path) : path[j] # 47}
    IN  IF dots = {} THEN <<>>
        ELSE SubSeq(path, CHOOSE i \in dots : \A j \in dots : j <= i, Len(path))

\* a resolved argument: a string, or a list of resolved arguments
StrVal(t) == [k |-> "s", v |-> t]
ListVal(items) == [k |-> "l", v |-> items]

\* ParserArg of the configuration
ParserArg(value, values, col, cols) == [Value |-> value, Values |-> values, Col |-> col, Cols |-> cols]
ArgLit(t)     == ParserArg(t, <<>>, "", <<>>)
ArgList(args) == ParserArg(<<>>, args, "", <<>>)
ArgCol(c)     == ParserArg(<<>>, <<>>, c, <<>>)
ArgCols(cs)   == ParserArg(<<>>, <<>>, "", cs)
ArgSelf       == ParserArg(<<>>, <<>>, "", <<>>)

\* ColParser of the configuration
ColParser(name, args) == [Name |-> name, Args |-> args]

\* a list whose children are collected in reverse
childValuesReversed(rs) == ListVal([i \in 1..Len(rs) |-> rs[Len(rs) + 1 - i].val])

\* vals = append(vals, val) over the children, left to right
childValues(rs) == ListVal([i \in 1..Len(rs) |-> rs[i].val])

\* parseArgs: [ok, err, at, val]; at is the path of failing list indices (0-based)
RECURSIVE parseArgs(_, _, _)
parseArgs(cell, row, arg) ==
    IF arg.Value # <<>> THEN [ok |-> TRUE, err |-> "", at |-> <<>>, val |-> StrVal(arg.Value)]
    ELSE IF Len(arg.Values) > 0
    THEN LET rs  == [i \in 1..Len(arg.Values) |-> parseArgs(cell, row, arg.Values[i])]
             bad == {i \in 1..Len(rs) : ~rs[i].ok}
             b   == CHOOSE i \in bad : \A j \in bad : i <= j
         IN  IF bad # {}
             THEN [ok |-> FALSE, err |-> rs[b].err, at |-> <<b - 1>> \o rs[b].at,
                   val |-> StrVal(<<>>)]
             ELSE [ok |-> TRUE, err |-> "", at |-> <<>>,
                   val |-> childValues(rs)]
    ELSE IF arg.Col # ""
    THEN IF arg.Col \in DOMAIN row
         THEN [ok |-> TRUE, err |-> "", at |-> <<>>, val |-> StrVal(ValStr(row[arg.Col]))]
         ELSE [ok |-> FALSE, err |-> "column not found", at |-> <<>>, val |-> StrVal(<<>>)]
    ELSE IF Len(arg.Cols) > 0
    THEN IF arg.Cols[1] \in DOMAIN row
         THEN [ok |-> TRUE, err |-> "", at |-> <<>>, val |-> StrVal(ValStr(row[arg.Cols[1]]))]
         ELSE [ok |-> FALSE, err |-> "column not found", at |-> <<>>, val |-> StrVal(<<>>)]
    ELSE [ok |-> TRUE, err |-> "", at |-> <<>>, val |-> StrVal(ValStr(cell))]

\* Parser.ArgDef of the built-in parsers: argument name -> kind
parsers ==
    [lowercase  |-> [value |-> "string"],
     uppercase  |-> [value |-> "string"],
     concat     |-> [values |-> "slice"],
     ext        |-> [value |-> "string"],
     fileExists |-> [value |-> "string"],
     fileMd5    |-> [filename |-> "string"],
     contains   |-> [value |-> "string", term |-> "string", trueValue |-> "string",
                     falseValue |-> "string"]]

\* argString of a parser's arguments: [ok, err, val]
argStringOf(args, argName) ==
    IF argName \notin DOMAIN args
    THEN [ok |-> FALSE, err |-> "argument not provided", val |-> <<>>]
    ELSE IF args[argName].k # "s"
    THEN [ok |-> FALSE, err |-> "must be a string", val |-> <<>>]
    ELSE [ok |-> TRUE, err |-> "", val |-> args[argName].v]

ParseOut(out) == [ok |-> TRUE, panic |-> FALSE, err |-> "", out |-> out]
ParseErr(e)   == [ok |-> FALSE, panic |-> FALSE, err |-> e, out |-> <<>>]
ParsePanic    == [ok |-> FALSE, panic |-> TRUE, err |-> "", out |-> <<>>]

\* changeCase(upper)
changeCase(upper, args) ==
    IF "value" \notin DOMAIN args THEN ParseErr("argument not provided")
    ELSE IF args.value.k # "s" THEN ParseErr("val isn't a string")
    ELSE ParseOut(IF upper THEN ToUpper(args.value.v) ELSE ToLower(args.value.v))

\* concat: the string items of the list, joined; other items are skipped
concat(args) ==
    IF "values" \notin DOMAIN args THEN ParseErr("argument not provided")
    ELSE IF args.values.k # "l" THEN ParsePanic
    ELSE LET items == args.values.v
             strs  == SelectSeq(items, LAMBDA x : x.k = "s")
         IN  ParseOut(Join([i \in 1..Len(strs) |-> strs[i].v], <<>>))

\* extParser
extParser(args) ==
    IF "filename" \notin DOMAIN args THEN ParseErr("argument not provided")
    ELSE IF args.filename.k # "s" THEN ParsePanic
    ELSE LET ext == FilepathExt(args.filename.v)
         IN  ParseOut(IF ext # <<>> /\ ext[1] = 46 THEN Tail(ext) ELSE ext)

\* the parser fileExists
fileExistsParse(fs, args) ==
    IF "filename" \notin DOMAIN args THEN ParseErr("argument not provided")
    ELSE IF args.filename.k # "s" THEN ParsePanic
    ELSE ParseOut(IF fileExists(fs, args.filename.v) THEN T_true ELSE T_false)

\* the parser fileMd5
fileMd5(fs, args) ==
    IF "filename" \notin DOMAIN args THEN ParseErr("argument not provided")
    ELSE IF args.filename.k # "s" THEN ParsePanic
    ELSE IF ~fileExists(fs, args.filename.v) THEN ParseOut(<<>>)
    ELSE IF ~fileReadable(fs, args.filename.v) THEN ParseErr("read error")
    ELSE ParseOut(md5Hex(fs[args.filename.v].cnt))

\* the parser contains
contains(args) ==
    LET val  == argStringOf(args, "value")
        term == argStringOf(args, "term")
        tv   == argStringOf(args, "trueValue")
        fv   == argStringOf(args, "falseValue")
    IN  IF ~val.ok THEN ParseErr(val.err)
        ELSE IF ~term.ok THEN ParseErr(term.err)
        ELSE IF ~tv.ok THEN ParseErr(tv.err)
        ELSE IF ~fv.ok THEN ParseErr(fv.err)
        ELSE ParseOut(IF Contains(val.val, term.val) THEN tv.val ELSE fv.val)

\* parsers[name].Parse(args); a name that is not registered is a nil interface
Parse(fs, name, args) ==
    IF name \notin DOMAIN parsers THEN ParsePanic
    ELSE IF name = "lowercase" THEN changeCase(FALSE, args)
    ELSE IF name = "uppercase" THEN changeCase(TRUE, args)
    ELSE IF name = "concat" THEN concat(args)
    ELSE IF name = "ext" THEN extParser(args)
    ELSE IF name = "fileExists" THEN fileExistsParse(fs, args)
    ELSE IF name = "fileMd5" THEN fileMd5(fs, args)
    ELSE contains(args)

\* validateParserArgType: TRUE when the shape of arg fits the declared kind
validateParserArgType(kind, arg) ==
    /\ ~(Len(arg.Values) > 0 /\ kind # "slice")
    /\ ~(Len(arg.Values) = 0 /\ kind = "slice")

\* validateParser: the errors it can return (one per failing argument, the
\* arguments being visited in map order); {} when the invocation is valid
validateParser(colParser) ==
    IF colParser.Name \notin DOMAIN parsers THEN {"parser does not exist"}
    ELSE { "parser does not take argument" :
              a \in {x \in DOMAIN colParser.Args : x \notin DOMAIN parsers[colParser.Name]} }
         \cup
         { "invalid type for argument" :
              a \in {x \in DOMAIN colParser.Args :
                        /\ x \in DOMAIN parsers[colParser.Name]
                        /\ ~validateParserArgType(parsers[colParser.Name][x], colParser.Args[x])} }

\* ColDef.validateParsers: the errors of the first invalid invocation of the chain
validateParsers(cd) ==
    LET bad == {k \in 1..Len(cd.Parsers) : validateParser(cd.Parsers[k]) # {}}
    IN  IF bad = {} THEN {}
        ELSE validateParser(cd.Parsers[CHOOSE k \in bad : \A j \in bad : k <= j])

\* the errors NewHeader can return: those of the first recognised column, in
\* header order, that has an invalid invocation
headerErrors(defs, names) ==
    LET bad == {hi \in 1..Len(names) :
                   names[hi] \in DOMAIN defs /\ validateParsers(defs[names[hi]]) # {}}
    IN  IF bad = {} THEN {}
        ELSE validateParsers(defs[names[CHOOSE hi \in bad : \A j \in bad : hi <= j]])

(***************************************************************************)
(* ReadCsv: header, then one record at a time through the parser chains     *)
(***************************************************************************)

\* the orders in which a map with key set S can be iterated
orderings(S) ==
    {p \in [1..Cardinality(S) -> S] : \A x, y \in 1..Cardinality(S) : p[x] = p[y] => x = y}

\* mutant of chainStored: the new cell is not written back to the row
chainNotStored(row, colName, val) == row

\* row[colName] = cell
chainStored(row, colName, val) ==
    [c \in DOMAIN row \cup {colName} |-> IF c = colName THEN val ELSE row[c]]

ReadOk(row, cs)     == [ok |-> TRUE, panic |-> FALSE, err |-> "", row |-> row, calls |-> cs]
ReadErr(e, cs)      == [ok |-> FALSE, panic |-> FALSE, err |-> e, row |-> EmptyRow, calls |-> cs]
ReadPanic(cs)       == [ok |-> FALSE, panic |-> TRUE, err |-> "", row |-> EmptyRow, calls |-> cs]

\* one record of the history of parser invocations
Call(ridx, colName, k, p, funcArgs, cell, out) ==
    [row |-> ridx, col |-> colName, k |-> k, name |-> p.Name, conf |-> p, args |-> funcArgs,
     self |-> cell, res |-> out]

\* the chain of one column from invocation k on, starting with cell
RECURSIVE runChain(_, _, _, _, _, _, _, _)
runChain(fs, def, colName, cell, row, k, ridx, cs) ==
    IF k > Len(def.Parsers) THEN ReadOk(row, cs)
    ELSE LET p        == def.Parsers[k]
             rs       == [a \in DOMAIN p.Args |-> parseArgs(cell, row, p.Args[a])]
             funcArgs == [a \in DOMAIN rs |-> rs[a].val]
             out      == Parse(fs, p.Name, funcArgs)
             nv       == NewValue(def, out.out)
             cs2      == Append(cs, Call(ridx, colName, k, p, funcArgs, cell, out))
         IN  IF \E a \in DOMAIN rs : ~rs[a].ok THEN ReadErr("error parsing argument", cs)
             ELSE IF out.panic THEN ReadPanic(cs2)
             ELSE IF ~out.ok THEN ReadErr("error running parser", cs2)
             ELSE IF ~nv.ok THEN ReadErr("error replacing value", cs2)
             ELSE runChain(fs, def, colName, nv.val, chainStored(row, colName, nv.val),
                           k + 1, ridx, cs2)

\* the loop over the cells of the row, visited in the order given
RECURSIVE runStatic(_, _, _, _, _, _)
runStatic(fs, defs, order, j, ridx, acc) ==
    IF ~acc.ok \/ j > Len(order) THEN acc
    ELSE runStatic(fs, defs, order, j + 1, ridx,
            runChain(fs, defs[order[j]], order[j], acc.row[order[j]], acc.row, 1, ridx,
                     acc.calls))

\* one dynamic column: an empty value, then its chain
runDynamicCol(fs, d, colName, ridx, acc) ==
    IF ~NewValue(d, <<>>).ok THEN ReadErr("error creating empty value", acc.calls)
    ELSE runChain(fs, d, colName, NewValue(d, <<>>).val, acc.row, 1, ridx, acc.calls)

\* the loop over the column definitions, visited in the order given
RECURSIVE runDynamic(_, _, _, _, _, _)
runDynamic(fs, defs, order, j, ridx, acc) ==
    IF ~acc.ok \/ j > Len(order) THEN acc
    ELSE IF ~defs[order[j]].Dynamic THEN runDynamic(fs, defs, order, j + 1, ridx, acc)
    ELSE runDynamic(fs, defs, order, j + 1, ridx,
            runDynamicCol(fs, defs[order[j]], order[j], ridx, acc))

\* the keys NewRow gives a row of as many fields as the header
rowKeys(defs, names) == {names[hi] : hi \in {i \in 1..Len(names) : names[i] \in DOMAIN defs}}

\* one record turned into a row: NewRow, the static chains, the dynamic chains
rowBuilt(fs, defs, hd, rec, so, do, ridx, cs) ==
    IF ~NewRow(hd, rec).ok THEN ReadErr("NewRow", cs)
    ELSE runDynamic(fs, defs, do, 1, ridx,
            runStatic(fs, defs, so, 1, ridx, ReadOk(NewRow(hd, rec).row, cs)))

Reading == status = "reading"

readVars == <<valueDefs, ops, opi, states, stdout, files, legacySort, input, probe, reg, log>>

\* the first record: NewHeader, which validates the chains of the columns it recognises
ReadHeader ==
    /\ Reading
    /\ recIndex = 1
    /\ IF headerErrors(valueDefs, input[1]) # {}
       THEN /\ status' = "error"
            /\ err' \in headerErrors(valueDefs, input[1])
            /\ UNCHANGED <<csvHeader, recIndex>>
       ELSE /\ csvHeader' = NewHeader(valueDefs, input[1])
            /\ recIndex' = 2
            /\ UNCHANGED <<status, err>>
    /\ UNCHANGED <<heapRows, heapArr, rows0, calls>>
    /\ UNCHANGED readVars
    /\ UNCHANGED md5Vars

\* the outcome r of building one row: appended to rows, or the read returns nil
rowStored(r) ==
    /\ status' = IF r.panic THEN "panic" ELSE IF ~r.ok THEN "error" ELSE "reading"
    /\ err' = r.err
    /\ calls' = r.calls
    /\ heapRows' = IF r.ok THEN Append(heapRows, r.row) ELSE <<>>
    /\ heapArr' = IF r.ok THEN << Append(heapArr[1], Len(heapRows) + 1) >> ELSE << <<>> >>
    /\ recIndex' = IF r.ok THEN recIndex + 1 ELSE recIndex

\* a later record: a record of another length than the header is a read error
ReadRow ==
    /\ Reading
    /\ recIndex \in 2..Len(input)
    /\ IF Len(input[recIndex]) # Len(input[1])
       THEN rowStored(ReadErr("wrong number of fields", calls))
       ELSE \E so \in orderings(rowKeys(valueDefs, input[1])) :
            \E do \in orderings(DOMAIN valueDefs) :
               rowStored(rowBuilt(files, valueDefs, csvHeader, input[recIndex], so, do,
                                  recIndex - 1, calls))
    /\ UNCHANGED <<csvHeader, rows0>>
    /\ UNCHANGED readVars
    /\ UNCHANGED md5Vars

\* end of file: the rows built are the original state the pipeline starts from
ReadDone ==
    /\ Reading
    /\ recIndex = Len(input) + 1
    /\ status' = "running"
    /\ rows0' = heapRows
    /\ UNCHANGED <<err, heapRows, heapArr, recIndex, csvHeader, calls>>
    /\ UNCHANGED readVars
    /\ UNCHANGED md5Vars

\* the state ReadCsv is in when the file has been opened
Unread(defs, header, recs, opList, fs, legacy) ==
    /\ valueDefs = defs
    /\ ops = opList
    /\ opi = 1
    /\ status = "reading"
    /\ err = ""
    /\ heapRows = <<>>
    /\ heapArr = << <<>> >>
    /\ states = [x \in {} |-> OpState(0, NoDefs)]
    /\ stdout = <<>>
    /\ files = fs
    /\ legacySort = legacy
    /\ frame = NoFrame
    /\ task = <<>>
    /\ ch = 0
    /\ wg = 0
    /\ touched = {}
    /\ rows0 = <<>>
    /\ log = <<>>
    /\ input = <<header>> \o recs
    /\ recIndex = 1
    /\ csvHeader = <<>>
    /\ calls = <<>>
    /\ probe = <<>>
    /\ reg = <<>>

(***************************************************************************)
(* SpecBuild: reading a small file through configured parser chains         *)
(***************************************************************************)

MaxChain == 2

MaxBuildRows == 2

T_dot == <<102, 49, 46, 97>>

\* invocations that pass validation on a column of the header
BuildValid ==
    { ColParser("uppercase", [value |-> ArgSelf]),
      ColParser("lowercase", [value |-> ArgCol("b")]),
      ColParser("concat", [values |-> ArgList(<<ArgCol("a"), ArgLit(T_1)>>)]),
      ColParser("concat", [values |-> ArgList(<<ArgCol("d"), ArgLit(T_b)>>)]),
      ColParser("contains", [value |-> ArgSelf, term |-> ArgLit(T_a), trueValue |-> ArgLit(T_1),
                             falseValue |-> ArgLit(T_A)]) }

\* further invocations: valid ones that fail or depend on files, and invalid ones
BuildOther ==
    { ColParser("ext", [value |-> ArgSelf]),
      ColParser("fileMd5", [filename |-> ArgSelf]),
      ColParser("uppercase", [value |-> ArgCol("zz")]),
      ColParser("uppercase", [value |-> ArgCols(<<"b", "a">>)]),
      ColParser("concat", [values |-> ArgList(<<ArgList(<<ArgCol("zz")>>)>>)]),
      ColParser("nope", [value |-> ArgSelf]),
      ColParser("ext", [filename |-> ArgLit(T_dot)]),
      ColParser("lowercase", [value |-> ArgList(<<ArgSelf>>)]),
      ColParser("concat", [values |-> ArgSelf]) }

\* the chains of up to n invocations that pass validation
RECURSIVE BuildChains(_)
BuildChains(n) ==
    IF n = 0 THEN {<<>>}
    ELSE BuildChains(n - 1) \cup
         {Append(c, x) : c \in {y \in BuildChains(n - 1) : Len(y) = n - 1}, x \in BuildValid}

\* chains of at most one invocation, of any kind
BuildShort == {<<>>} \cup {<<x>> : x \in BuildValid \cup BuildOther}

BuildDefs(typ, chainA, chainD) ==
    [a |-> ColDefWith("a", typ, <<>>, FALSE, FALSE, chainA),
     b |-> StrCol("b"),
     d |-> ColDefWith("d", TypStr, <<>>, FALSE, TRUE, chainD)]

BuildHeaders == {<<"a", "b">>, <<"x", "a">>}

\* the k-th record of the file
BuildRecord(k) ==
    IF k % 3 = 1 THEN <<T_1, T_A>>
    ELSE IF k % 3 = 2 THEN <<T_ab, T_dot>>
    ELSE <<P_f1, T_a, T_b>>

BuildOpList ==
    <<OpConf("op1", "sort", FALSE, "", [cols |-> ListArg(<<"a">>), order |-> ListArg(<<"asc">>)])>>

InitBuild ==
    \E typ \in {TypStr, TypInt}, long \in BuildChains(MaxChain), short \in BuildShort,
       swap \in BOOLEAN, hd \in BuildHeaders, n \in 0..MaxBuildRows :
        Unread(BuildDefs(typ, IF swap THEN short ELSE long, IF swap THEN long ELSE short),
               hd, [k \in 1..n |-> BuildRecord(k)], BuildOpList, FileSystem, FALSE)

NextBuild ==
    \/ ReadHeader
    \/ ReadRow
    \/ ReadDone
    \/ InvokeSort
    \/ Return

SpecBuild == InitBuild /\ [][NextBuild]_vars

\* C15: every invocation of every configured column's chain, static or dynamic,
\* is validated before a data row is built: once the header has been built no
\* column holds an invocation with an unknown parser, an undeclared argument or
\* a scalar/list mismatch, and no such invocation is ever executed.
C15_ChainsValidatedBeforeRows ==
    /\ recIndex >= 2 => \A c \in DOMAIN valueDefs : validateParsers(valueDefs[c]) = {}
    /\ \A i \in 1..Len(calls) : validateParser(calls[i].conf) = {}

\* the Value the cell holds after invocation i of the history
Replaced(i) == NewValue(valueDefs[calls[i].col], calls[i].res.out)

\* invocation i of the history failed: in the parser or in the coercion of its output
ChainFailed(i) == ~calls[i].res.ok \/ ~Replaced(i).ok

\* what invocation i resolved for every reference to its own column is the string of v
SeesOwnColumn(i, v) ==
    \A a \in DOMAIN calls[i].conf.Args :
        LET arg == calls[i].conf.Args[a]
        IN  /\ arg.Value = <<>> /\ arg.Values = <<>> /\ arg.Col = calls[i].col
                => calls[i].args[a] = StrVal(ValStr(v))
            /\ arg.Value = <<>> =>
                \A j \in 1..Len(arg.Values) :
                    arg.Values[j].Value = <<>> /\ arg.Values[j].Values = <<>>
                    /\ arg.Values[j].Col = calls[i].col
                        => calls[i].args[a].v[j] = StrVal(ValStr(v))

\* C20: a column's chain runs in chain order; after each invocation the cell is
\* the Value constructed from the parser's output against the column definition,
\* which the next invocation sees as self and through a reference to its own
\* column, and which the finished row holds; a parser or coercion failure at any
\* step ends the read with no rows and no operation executed.
C20_ChainOrderAndReplacement ==
    /\ \A i \in 1..Len(calls) :
          /\ calls[i].conf = valueDefs[calls[i].col].Parsers[calls[i].k]
          /\ calls[i].k > 1 =>
                /\ i > 1
                /\ calls[i - 1].row = calls[i].row
                /\ calls[i - 1].col = calls[i].col
                /\ calls[i - 1].k = calls[i].k - 1
                /\ ~ChainFailed(i - 1)
                /\ calls[i].self = Replaced(i - 1).val
                /\ SeesOwnColumn(i, Replaced(i - 1).val)
          /\ (calls[i].row <= Len(heapRows) /\ ~ChainFailed(i)
              /\ calls[i].k = Len(valueDefs[calls[i].col].Parsers))
                => heapRows[calls[i].row][calls[i].col] = Replaced(i).val
          /\ ChainFailed(i) =>
                /\ i = Len(calls)
                /\ status \in {"error", "panic"}
                /\ heapRows = <<>>
                /\ log = <<>>
    /\ (status = "error" /\ err \in {"error parsing argument", "error running parser",
                                     "error replacing value", "error creating empty value"})
          => heapRows = <<>> /\ log = <<>>

\* a finished run in which the second invocation of a chain referred to its own
\* column and saw a value the first invocation had changed
C20_Witness ==
    /\ status = "done"
    /\ \E i \in 2..Len(calls) :
          /\ calls[i].k = 2
          /\ Replaced(i - 1).val # calls[i - 1].self
          /\ \E a \in DOMAIN calls[i].conf.Args :
                \E j \in 1..Len(calls[i].conf.Args[a].Values) :
                    calls[i].conf.Args[a].Values[j].Col = calls[i].col

\* a read that a failing chain step ended: no rows, nothing executed
C20_WitnessFailure ==
    /\ status = "error"
    /\ err = "error replacing value"
    /\ Len(calls) >= 2

(***************************************************************************)
(* toFile                                                                   *)
(***************************************************************************)

\* the bytes of the column names used in sink configurations
ColText == [a |-> T_a, b |-> T_b, zz |-> <<122, 122>>]

\* encoding/csv: (*Writer).fieldNeedsQuotes
fieldNeedsQuotes(f) ==
    IF f = <<>> THEN FALSE
    ELSE IF f = <<92, 46>> THEN TRUE
    ELSE \/ \E i \in 1..Len(f) : f[i] \in {44, 34, 13, 10}
         \/ IsSpace(f[1])

\* a quoted field: every quote doubled, the whole between quotes
RECURSIVE quoted(_)
quoted(f) ==
    IF f = <<>> THEN <<>>
    ELSE (IF f[1] = 34 THEN <<34, 34>> ELSE <<f[1]>>) \o quoted(Tail(f))

csvField(f) == IF fieldNeedsQuotes(f) THEN <<34>> \o quoted(f) \o <<34>> ELSE f

\* encoding/csv: (*Writer).Write of one record
csvLine(fields) == Join([i \in 1..Len(fields) |-> csvField(fields[i])], <<44>>) \o <<10>>

\* the header line and one line per row, as the writer emits them
csvText(cols, rws) ==
    csvLine([i \in 1..Len(cols) |-> ColText[cols[i]]])
    \o Join([k \in 1..Len(rws) |-> csvLine(outVals(rws[k], cols))], <<>>)

\* a write of out at offset 0 of a file that held old: os.O_WRONLY|os.O_CREATE
written(old, out) ==
    IF Len(old) > Len(out) THEN out \o SubSeq(old, Len(out) + 1, Len(old)) ELSE out

\* the content of the file at path, empty when there is none
contentOf(fs, path) == IF fileExists(fs, path) THEN fs[path].cnt ELSE <<>>

\* the file system with cnt as the content of the file at path
fileWith(fs, path, cnt) ==
    [q \in DOMAIN fs \cup {path} |->
        IF q = path
        THEN [exists |-> TRUE, readable |-> IF fileExists(fs, path) THEN fs[path].readable ELSE TRUE,
              cnt |-> cnt]
        ELSE fs[q]]

\* opToFile: [err, panic, fs]; a panic in the row loop leaves the buffer unflushed
opToFile(fs, rws, args) ==
    IF "cols" \notin DOMAIN args THEN [err |-> "cols argument not provided", panic |-> FALSE, fs |-> fs]
    ELSE IF "filename" \notin DOMAIN args
         THEN [err |-> "filename argument not provided", panic |-> FALSE, fs |-> fs]
    ELSE IF \E k \in 1..Len(rws), c \in 1..Len(args.cols) : args.cols[c] \notin DOMAIN rws[k]
         THEN [err |-> "", panic |-> TRUE,
               fs |-> fileWith(fs, args.filename, contentOf(fs, args.filename))]
    ELSE [err |-> "", panic |-> FALSE,
          fs |-> fileWith(fs, args.filename,
                          written(contentOf(fs, args.filename), csvText(args.cols, rws)))]

toFileApplied(r) ==
    /\ files' = r.fs
    /\ Advance(r, 0, NoDefs)
    /\ log' = Append(log, LogEntry(Outcome(r), <<>>, <<>>, NoDefs))

\* toFile: a sink; it returns no rows
InvokeToFile ==
    /\ Ready({"toFile"})
    /\ toFileApplied(opToFile(files, Deref(execState.Rows), OpFuncArgs(CurOp)))
    /\ UNCHANGED <<valueDefs, ops, heapRows, heapArr, stdout, fixedVars, rows0>>
    /\ UNCHANGED md5Vars

(***************************************************************************)
(* SpecSink: reading a small file and running pipelines of sinks            *)
(***************************************************************************)

MaxSinkOps == 2

MaxSinkRows == 2

P_out == <<111, 117, 116>>

SinkDefs == [a |-> StrCol("a"), b |-> StrCol("b")]

SinkHeader == <<"a", "b">>

\* the k-th record of the file; some fields need quoting when written
SinkRecord(k) ==
    IF k % 3 = 1 THEN <<T_1, T_A>>
    ELSE IF k % 3 = 2 THEN <<T_ab, <<97, 44, 98>>>>
    ELSE <<<<34>>, T_a_b>>

\* the target path absent, holding less and holding more than toFile writes
SinkFileSystems ==
    { FileSystem,
      (P_out :> [exists |-> TRUE, readable |-> TRUE, cnt |-> T_v]) @@ FileSystem,
      (P_out :> [exists |-> TRUE, readable |-> TRUE, cnt |-> [i \in 1..40 |-> 120]]) @@ FileSystem }

\* (operation, args) of the invocations: sinks, an unknown operation, an undeclared
\* argument, a column no row has
SinkKinds ==
    { <<"print", [cols |-> ListArg(<<"a", "b">>)]>>,
      <<"toFile", [filename |-> ScalarArg(P_out), cols |-> ListArg(<<"a">>)]>>,
      <<"toFile", [filename |-> ScalarArg(P_out), cols |-> ListArg(<<"b", "a">>)]>>,
      <<"toFile", [filename |-> ScalarArg(P_out), cols |-> ListArg(<<"zz">>)]>>,
      <<"nope", [cols |-> ListArg(<<"a">>)]>>,
      <<"print", [cols |-> ListArg(<<"a">>), bogus |-> ScalarArg(T_1)]>> }

SinkOps(c) == [i \in 1..Len(c) |-> OpConf(OpNames[i], c[i][1], FALSE, "", c[i][2])]

InitSink ==
    \E len \in 1..MaxSinkOps, n \in 0..MaxSinkRows, fs \in SinkFileSystems :
    \E c \in [1..len -> SinkKinds] :
        Unread(SinkDefs, SinkHeader, [k \in 1..n |-> SinkRecord(k)], SinkOps(c), fs, FALSE)

NextSink ==
    \/ ReadHeader
    \/ ReadRow
    \/ ReadDone
    \/ InvokeFail
    \/ InvokePrint
    \/ InvokeToFile
    \/ Return

SpecSink == InitSink /\ [][NextSink]_vars

\* the run stopped at an invocation of an unknown operation or with an undeclared argument
ConfigError == status = "error" /\ err \in {"operation does not exist", "unexpected argument"}

\* C16: an invocation that names an unknown operation or supplies an argument the
\* operation does not declare fails the run before any data row is built and
\* before any operation, an earlier sink included, has executed.
C16_ConfigErrorsBeforeAnyRow ==
    ConfigError =>
        /\ heapRows = <<>>
        /\ calls = <<>>
        /\ log = <<>>
        /\ stdout = <<>>

\* the step in which an invocation of toFile completed
ToFileCompleted ==
    /\ Len(log') = Len(log) + 1
    /\ log'[Len(log')].operation = "toFile"
    /\ log'[Len(log')].outcome = "ok"

\* C17: when toFile completes, whatever the target held before, the file's
\* content is exactly the header line of the configured columns followed by one
\* line per input row restricted to those columns.
C17_ToFileContentIsExactlyTheOutput ==
    [][ ToFileCompleted =>
          files'[log'[Len(log')].args.filename].cnt
            = csvText(log'[Len(log')].args.cols, log'[Len(log')].recvRows) ]_vars

(***************************************************************************)
(* Registration of parsers and operations                                   *)
(***************************************************************************)

\* the registries as package initialisation creates them: two empty maps
NoRegistry == [parsers |-> <<>>, operations |-> <<>>]

\* AddParsers on the registry m from item i of the list on: [err, m]
RECURSIVE addParsersFrom(_, _, _)
addParsersFrom(m, parsersList, i) ==
    IF i > Len(parsersList) THEN [err |-> "", m |-> m]
    ELSE IF TrimSpace(parsersList[i].name) = <<>>
         THEN [err |-> "parser's name cannot be empty", m |-> m]
    ELSE IF TrimSpace(parsersList[i].name) \in DOMAIN m
         THEN [err |-> "parser already exists", m |-> m]
    ELSE addParsersFrom((parsersList[i].name :> parsersList[i]) @@ m, parsersList, i + 1)

\* AddOperations on the registry m from item i of the list on: [err, m]
RECURSIVE addOperationsFrom(_, _, _)
addOperationsFrom(m, newOps, i) ==
    IF i > Len(newOps) THEN [err |-> "", m |-> m]
    ELSE IF newOps[i].name \in DOMAIN m
         THEN [err |-> "operation already exists", m |-> m]
    ELSE addOperationsFrom((newOps[i].name :> newOps[i]) @@ m, newOps, i + 1)

Registering == status = "registering"

registered(fn, list, r) ==
    /\ reg' = IF fn = "AddParsers" THEN [reg EXCEPT !.parsers = r.m]
              ELSE [reg EXCEPT !.operations = r.m]
    /\ probe' = [fn |-> fn, list |-> list, err |-> r.err, n |-> probe.n + 1]

MaxRegCalls == 2

\* the parsers and operations offered for registration: name and identity
RegParsers == { [name |-> n, id |-> i] : n \in {T_a, <<32, 97>>, T_sp}, i \in {1, 2} }

RegOperations == { [name |-> n, id |-> i] : n \in {T_a, T_b}, i \in {1, 2} }

RegLists(S) == {<<x>> : x \in S} \cup {<<x, y>> : x \in S, y \in S}

AddParsers ==
    /\ Registering
    /\ probe.n < MaxRegCalls
    /\ \E parsersList \in RegLists(RegParsers) :
          registered("AddParsers", parsersList, addParsersFrom(reg.parsers, parsersList, 1))
    /\ UNCHANGED <<benchVars, status>>

AddOperations ==
    /\ Registering
    /\ probe.n < MaxRegCalls
    /\ \E newOps \in RegLists(RegOperations) :
          registered("AddOperations", newOps, addOperationsFrom(reg.operations, newOps, 1))
    /\ UNCHANGED <<benchVars, status>>

InitReg ==
    /\ Bench
    /\ status = "registering"
    /\ reg = NoRegistry
    /\ probe = [fn |-> "", list |-> <<>>, err |-> "", n |-> 0]

NextReg ==
    \/ AddParsers
    \/ AddOperations

SpecReg == InitReg /\ [][NextReg]_vars

\* item i of the list of the call just made names a registered or earlier-listed name
NameTaken(m, list, i) ==
    \/ list[i].name \in DOMAIN m
    \/ \E j \in 1..(i - 1) : list[j].name = list[i].name

\* every entry of the registry m is in m2 unchanged
Preserved(m, m2) == \A n \in DOMAIN m : n \in DOMAIN m2 /\ m2[n] = m[n]

\* C18: AddParsers fails when a parser's name is blank or already registered,
\* AddOperations fails on a duplicate name, no blank name is ever registered and
\* no registered entry is ever replaced by a later registration.
C18_RegistrationNeverOverwrites ==
    [][ /\ Preserved(reg.parsers, reg'.parsers)
        /\ Preserved(reg.operations, reg'.operations)
        /\ \A n \in DOMAIN reg'.parsers : TrimSpace(n) # <<>>
        /\ probe'.n # probe.n =>
              \A i \in 1..Len(probe'.list) :
                 /\ (probe'.fn = "AddParsers" /\ TrimSpace(probe'.list[i].name) = <<>>)
                       => probe'.err # ""
                 /\ NameTaken(IF probe'.fn = "AddParsers" THEN reg.parsers ELSE reg.operations,
                              probe'.list, i)
                       => probe'.err # "" ]_vars

(***************************************************************************)
(* Row keys and column definitions                                          *)
(***************************************************************************)

ColsOf(cols) == {cols[i] : i \in 1..Len(cols)}

\* the column an operation adds to its output, if it adds one
NewColOf(e) ==
    IF e.operation = "dupesCount" THEN {e.args.countCol}
    ELSE IF e.operation = "findDuplicates" THEN {e.args.dupeIdsCol}
    ELSE IF e.operation = "filesMd5" THEN {e.args.md5Col}
    ELSE {}

\* C19: in the base dataset and in every retained state each row's keys are
\* exactly the column names of that state's definitions, and the rows returned
\* by dupesCount, findDuplicates, mergeDupes and filesMd5 have exactly the
\* configured outCols plus the operation's new column as keys, which are also
\* the names of the returned definitions.
C19_RowKeysAreTheStateColumns ==
    /\ \A k \in 1..Len(rows0) : DOMAIN rows0[k] = DOMAIN valueDefs
    /\ \A n \in DOMAIN states :
          \A k \in 1..Len(Deref(states[n].Rows)) :
             DOMAIN Deref(states[n].Rows)[k] = DOMAIN states[n].Defs
    /\ \A i \in 1..Len(log) :
          (log[i].outcome = "ok"
           /\ log[i].operation \in {"dupesCount", "findDuplicates", "mergeDupes", "filesMd5"})
             => \A k \in 1..Len(log[i].outRows) :
                   /\ DOMAIN log[i].outRows[k] = ColsOf(log[i].args.outCols) \cup NewColOf(log[i])
                   /\ DOMAIN log[i].outRows[k] = DOMAIN log[i].outDefs

(***************************************************************************)
(* SpecArgs: parseArgs on small argument trees                              *)
(***************************************************************************)

MaxArgItems == 2

ArgsCell == NewValue(StrCol("a"), T_A).val

\* rows with and without column b; column a holds the cell in focus or another value
ArgsRows ==
    { [a |-> ArgsCell, b |-> NewValue(IntCol("b"), T_1).val],
      [a |-> NewValue(StrCol("a"), T_ab).val] }

\* nodes without children: literal, column references, self, several columns
ArgsLeaves ==
    { ArgLit(T_b), ArgCol("a"), ArgCol("b"), ArgCol("zz"), ArgSelf, ArgCols(<<"b", "a">>),
      ParserArg(T_v, <<>>, "b", <<>>) }

\* the lists of 1..n nodes of S
RECURSIVE ArgsListsOf(_, _)
ArgsListsOf(S, n) ==
    IF n = 0 THEN {}
    ELSE {<<x>> : x \in S} \cup {Append(l, x) : l \in ArgsListsOf(S, n - 1), x \in S}

\* the children a list may have: leaves and lists of one or two leaves
ArgsChildren(n) ==
    ArgsLeaves \cup {ArgList(<<x>>) : x \in ArgsLeaves}
               \cup {ArgList(<<ArgLit(T_b), x>>) : x \in ArgsLeaves}

ArgsNodes(n) == ArgsLeaves \cup {ArgList(l) : l \in ArgsListsOf(ArgsChildren(n), n)}

InitArgs ==
    /\ Bench
    /\ status = "probing"
    /\ reg = <<>>
    /\ \E row \in ArgsRows, arg \in ArgsNodes(MaxArgItems) :
          probe = [fn |-> "parseArgs", cell |-> ArgsCell, row |-> row, arg |-> arg, out |-> Nil]

\* argVal, err := parseArgs(cell, row, arg)
ApplyParseArgs ==
    /\ status = "probing"
    /\ probe.fn = "parseArgs"
    /\ probe' = [probe EXCEPT !.out = Ptr(parseArgs(probe.cell, probe.row, probe.arg))]
    /\ status' = "probed"
    /\ UNCHANGED <<benchVars, reg>>

NextArgs == ApplyParseArgs

SpecArgs == InitArgs /\ [][NextArgs]_vars

\* the kinds of node the claim speaks of
IsLiteral(arg) == arg.Value # <<>>
IsList(arg)    == arg.Value = <<>> /\ Len(arg.Values) > 0
IsColRef(arg)  == arg.Value = <<>> /\ Len(arg.Values) = 0 /\ arg.Col # ""
IsSelf(arg)    == arg.Value = <<>> /\ Len(arg.Values) = 0 /\ arg.Col = "" /\ Len(arg.Cols) = 0

\* what a node is to resolve to: <<"ok", value>>, <<"fail", path of child indices>>,
\* or <<"any">> for a node of a kind the claim does not speak of
RECURSIVE Expected(_, _, _)
Expected(cell, row, arg) ==
    IF IsLiteral(arg) THEN <<"ok", StrVal(arg.Value)>>
    ELSE IF IsList(arg)
    THEN LET es   == [i \in 1..Len(arg.Values) |-> Expected(cell, row, arg.Values[i])]
             bad  == {i \in 1..Len(es) : es[i][1] # "ok"}
             b    == CHOOSE i \in bad : \A j \in bad : i <= j
         IN  IF bad = {} THEN <<"ok", ListVal([i \in 1..Len(es) |-> es[i][2]])>>
             ELSE IF es[b][1] = "any" THEN <<"any">>
             ELSE <<"fail", <<b - 1>> \o es[b][2]>>
    ELSE IF IsColRef(arg)
    THEN IF arg.Col \in DOMAIN row THEN <<"ok", StrVal(row[arg.Col].valStr)>>
         ELSE <<"fail", <<>>>>
    ELSE IF IsSelf(arg) THEN <<"ok", StrVal(cell.valStr)>>
    ELSE <<"any">>

Resolved == status = "probed" /\ probe.fn = "parseArgs"

\* C21: parseArgs returns the literal text for a literal node, the sequence of
\* its children's resolutions in left-to-right order for a list node (failing
\* with the index of the first failing child), the referenced column's string
\* form for a column reference (failing with "column not found" when the row
\* lacks it) and the string form of the cell in focus for an empty node.
C21_ArgumentResolution ==
    Resolved =>
        LET e   == Expected(probe.cell, probe.row, probe.arg)
            out == probe.out[1]
        IN  /\ e[1] = "ok" => out.ok /\ out.val = e[2]
            /\ e[1] = "fail" => ~out.ok /\ out.err = "column not found" /\ out.at = e[2]

\* a list of a column reference and a nested list was resolved, and the two
\* resolutions differ
C21_Witness ==
    /\ Resolved
    /\ IsList(probe.arg)
    /\ Len(probe.arg.Values) = 2
    /\ IsColRef(probe.arg.Values[1])
    /\ IsList(probe.arg.Values[2])
    /\ probe.out[1].ok
    /\ probe.out[1].val.v[1] # probe.out[1].val.v[2]

(***************************************************************************)
(* SpecMd5Fair: filesMd5 under a fair scheduler                             *)
(***************************************************************************)

\* the Go scheduler runs every goroutine that can take a step; the runtime ends
\* the process when none can
Md5Fairness ==
    /\ WF_vars(InvokeMd5)
    /\ WF_vars(TaskStep)
    /\ WF_vars(Md5Return)
    /\ WF_vars(Md5Stuck)
    /\ WF_vars(Return)

SpecMd5Fair == InitMd5 /\ [][NextMd5]_vars /\ Md5Fairness

\* a filesMd5 call is running on rows that all have the filename column
Md5Running ==
    /\ status = "hashing"
    /\ \A k \in DOMAIN task : frame.filenameCol \in DOMAIN TaskRow(k)

\* the filesMd5 call has handed its result back to the pipeline
Md5Returned ==
    /\ status \in {"running", "done"}
    /\ Len(log) >= 1
    /\ log[Len(log)].operation = "filesMd5"
    /\ log[Len(log)].outcome = "ok"

\* C22: filesMd5 terminates: for every row count and every configured thread
\* count, 0 and counts above the row count included, under fair scheduling and
\* with every file read returning, a running call eventually returns, every
\* task having been admitted and having completed.
C22_FilesMd5Terminates ==
    Md5Running ~> (Md5Returned /\ \A k \in DOMAIN task : task[k].pc = "done")

(***************************************************************************)
(* Groups, column by column                                                 *)
(***************************************************************************)

\* two rows have equal string values on every index column
SameOnIndex(r1, r2, cols) == \A i \in 1..Len(cols) : r1[cols[i]].valStr = r2[cols[i]].valStr

\* the positions of the rows of rws equal to the row at k on every index column
ClassOf(rws, cols, k) == {m \in 1..Len(rws) : SameOnIndex(rws[m], rws[k], cols)}

\* the input position of the row an output row was made from: the id is the position
SourceOf(in, o) == CHOOSE k \in 1..Len(in) : in[k].id.valStr = o.id.valStr

\* C23: dupesCount, findDuplicates and mergeDupes put two rows in the same group
\* iff they have equal string values on every index column: the count dupesCount
\* reports for a row is the number of rows equal to it column by column, the ids
\* findDuplicates lists for a row are those of the other rows equal to it column
\* by column, and mergeDupes emits one row for each such class of rows.
C23_GroupsAreColumnwise ==
    /\ \A j \in RunsOf("dupesCount") :
          \A o \in 1..Len(log[j].outRows) :
             log[j].outRows[o][log[j].args.countCol].valStr
                = Itoa(Cardinality(ClassOf(log[j].recvRows, log[j].args.indexCols,
                                           SourceOf(log[j].recvRows, log[j].outRows[o]))))
    /\ \A j \in RunsOf("findDuplicates") :
          \A o \in 1..Len(log[j].outRows) :
             LET in     == log[j].recvRows
                 k      == SourceOf(in, log[j].outRows[o])
                 others == Ascending(ClassOf(in, log[j].args.indexCols, k) \ {k})
             IN  log[j].outRows[o][log[j].args.dupeIdsCol].valStr
                    = Join([i \in 1..Len(others) |-> in[others[i]][log[j].args.idCol].valStr],
                           log[j].args.sep)
    /\ \A j \in RunsOf("mergeDupes") :
          Len(log[j].outRows)
             = Cardinality({k \in 1..Len(log[j].recvRows) :
                              \A m \in ClassOf(log[j].recvRows, log[j].args.indexCols, k) : k <= m})

(***************************************************************************)
(* SpecOrder: row building when chains refer to columns that have chains    *)
(***************************************************************************)

MaxOrderRows == 2

\* the chains a column may have: none, one on itself, one reading another column
OrderChains(other) ==
    { <<>>,
      <<ColParser("uppercase", [value |-> ArgSelf])>>,
      <<ColParser("concat", [values |-> ArgList(<<ArgCol(other), ArgLit(T_1)>>)])>> }

OrderDefs(ca, cb, cd, ce) ==
    [a |-> ColDefWith("a", TypStr, <<>>, FALSE, FALSE, ca),
     b |-> ColDefWith("b", TypStr, <<>>, FALSE, FALSE, cb),
     d |-> ColDefWith("d", TypStr, <<>>, FALSE, TRUE, cd),
     e |-> ColDefWith("e", TypStr, <<>>, FALSE, TRUE, ce)]

OrderRecord(k) == IF k % 2 = 1 THEN <<T_ab, T_b>> ELSE <<T_A, T_a>>

InitOrder ==
    \E ca \in OrderChains("b"), cb \in OrderChains("a"), cd \in OrderChains("e"),
       ce \in OrderChains("d"), n \in 0..MaxOrderRows :
        Unread(OrderDefs(ca, cb, cd, ce), <<"a", "b">>, [k \in 1..n |-> OrderRecord(k)],
               <<>>, FileSystem, FALSE)

NextOrder ==
    \/ ReadHeader
    \/ ReadRow
    \/ ReadDone
    \/ Return

SpecOrder == InitOrder /\ [][NextOrder]_vars

\* the step that built, or failed to build, the row of one record
RowStep == Reading /\ recIndex \in 2..Len(input) /\ (recIndex' # recIndex \/ status' # status)

\* what a run that visits the columns in the orders so and do makes of the record
RunOf(so, do) ==
    rowBuilt(files, valueDefs, csvHeader, input[recIndex], so, do, recIndex - 1, calls)

\* C24: row building is deterministic: whatever the order in which the cells of
\* the row and the column definitions are visited, a record yields the same
\* outcome and the same value in every cell, also when a column's chain refers
\* to another column that has a chain of its own.
C24_RowBuildIsDeterministic ==
    [][ RowStep =>
          \A so \in orderings(rowKeys(valueDefs, input[1])) :
          \A do \in orderings(DOMAIN valueDefs) :
             /\ RunOf(so, do).ok = (status' = "reading")
             /\ RunOf(so, do).ok => RunOf(so, do).row = heapRows'[Len(heapRows')] ]_vars

\* invocation i of the history was made for a static column of the header, passes
\* validation and supplies every argument its parser declares
ValidatedAndComplete(i) ==
    /\ ~valueDefs[calls[i].col].Dynamic
    /\ calls[i].col \in rowKeys(valueDefs, input[1])
    /\ validateParser(calls[i].conf) = {}
    /\ DOMAIN calls[i].conf.Args = DOMAIN parsers[calls[i].name]

\* C25: the argument names a built-in parser declares are the names its parse
\* function reads: an invocation on a static column that passed header
\* validation and supplies all declared arguments never fails at row-build time
\* because an argument was not provided.
C25_DeclaredArgumentsAreTheOnesRead ==
    \A i \in 1..Len(calls) :
        ValidatedAndComplete(i) => calls[i].res.err # "argument not provided"

====
